---- MODULE Spec2Model ----
(***************************************************************************)
(* otelbox: configuration resolution (internal/config) and the instance    *)
(* lifecycle manager (internal/generator).                                 *)
(*                                                                         *)
(* Go string pointers are sequences of length at most one:               *)
(* << >> is nil, <<n>> points to n.  Runtime objects are identified by     *)
(* their allocation index in clockObjs / sourceObjs / valueObjs; 0 is nil. *)
(***************************************************************************)
EXTENDS Integers, Sequences, FiniteSets, TLC

VARIABLES
    metrics,      \* []config.MetricConfig handed to generator.New
    phase,        \* "init" | "built" | "failed"
    g,            \* the Generator: ownership lists, instance caches, metricValues
    clockObjs,    \* heap of clock.Clock objects
    sourceObjs,   \* heap of source.Publisher objects
    valueObjs,    \* heap of simulation.ValueWrapper objects
    newErr,       \* error returned by generator.New ("" = nil)
    startCalls,   \* number of Generator.Start() calls so far
    stopCalls,    \* number of Generator.Stop() calls so far
    ticks,        \* number of clock ticks so far
    reads,        \* number of metric reads so far
    readSum,      \* per metric index: sum of all values returned by reads
    got,          \* last GetValue call: [index, val]
    rs,           \* the Resolver: registeredNames, template and instance maps
    rphase,       \* the loop Resolve is in, or "done" / "failed" / "idle"
    rerr,         \* error returned by Resolve (NoError = nil)
    call,         \* the current loop iteration: its entity, top-level reference and result
    registered,   \* number of registerName calls that succeeded
    rawMetrics,   \* raw.Metrics consumed so far
    outMetrics,   \* resolved metrics appended so far
    ex,           \* iterator expansion: raw iterators, entities, registry, result
    fe,           \* CombinationGenerator.ForEach: generator, loop index, callback calls
    itr,          \* an Iterator under construction and its ValueAt calls
    sv,           \* the serve command: main goroutine, exporter goroutines, errChan
    export        \* Config.Export, the resolved export configuration

genVars == <<metrics, phase, g, clockObjs, sourceObjs, valueObjs, newErr,
             startCalls, stopCalls, ticks, reads, readSum, got>>

resVars == <<rs, rphase, rerr, call, registered, rawMetrics, outMetrics>>

expVars == <<ex, fe, itr, sv, export>>

vars == <<genVars, resVars, expVars>>

----------------------------------------------------------------------------
(* Bounds *)

MaxMetrics == 3
MaxCalls == 1
MaxTicks == 3
MaxReads == 3
MaxDefs == 2
MaxRawMetrics == 1
ObsMax == 2
MaxIterators == 2
MaxItems == 2
MaxSpan == 3
MaxValueAt == 2
MaxCombIterators == 3
MaxFailAt == 1

Nil == 0
NilRef == << >>

\* The variables of operations that are not running.
NoForEach == [phase |-> "idle"]
NoIter == [phase |-> "idle"]
NoServe == [phase |-> "idle"]

\* The zero ExportConfig.
NoExport == [Prometheus |-> NilRef, OTEL |-> NilRef]
Ref(n) == <<n>>

Names == {"a", "b"}

----------------------------------------------------------------------------
(* Resolved configuration (internal/config) *)

ClockConfig(type, interval) == [Type |-> type, Interval |-> interval]

SourceConfig(type, clock, clockRef, min, max) ==
    [Type |-> type, Clock |-> clock, ClockRef |-> clockRef, Min |-> min, Max |-> max]

ValueConfig(source, sourceRef, transforms, reset) ==
    [Source |-> source, SourceRef |-> sourceRef, Transforms |-> transforms, Reset |-> reset]

TransformConfig(type) == [Type |-> type]

ResetConfig(type, value) == [Type |-> type, Value |-> value]

MetricConfig(name, type, description, value) ==
    [PrometheusName |-> name, Type |-> type, Description |-> description, Value |-> value]

MetricTypeCounter == "counter"
MetricTypeGauge == "gauge"

----------------------------------------------------------------------------
(* Resolver (internal/config): raw references, errors, resolution context *)

\* The element of a one-element set: in Only({e(x) : x \in {call}}) the call is
\* evaluated once and e is evaluated on its result.
Only(S) == CHOOSE x \in S : TRUE

ZeroClock == ClockConfig("", 0)
ZeroSource == SourceConfig("", ZeroClock, NilRef, 0, 0)
ZeroReset == ResetConfig("", 0)
ZeroValue == ValueConfig(ZeroSource, NilRef, << >>, ZeroReset)
ZeroMetric == MetricConfig("", "", "", ZeroValue)

\* RawClockReference, RawSourceReference, RawValueReference, RawMetricConfig.
\* Type, Clock, Source, Min and Max are Go pointers.
RawClock(name, instance, template, type, interval) ==
    [Name |-> name, Instance |-> instance, Template |-> template,
     Type |-> type, Interval |-> interval]

RawSource(name, instance, template, type, clock, min, max) ==
    [Name |-> name, Instance |-> instance, Template |-> template,
     Type |-> type, Clock |-> clock, Min |-> min, Max |-> max]

RawValue(name, instance, template, source, transforms, reset) ==
    [Name |-> name, Instance |-> instance, Template |-> template,
     Source |-> source, Transforms |-> transforms, Reset |-> reset]

RawMetric(name, type, description, value) ==
    [Name |-> name, Type |-> type, Description |-> description, Value |-> value]

NoError == [msg |-> "", name |-> "", kind |-> "", frames |-> << >>]

Reverse(seq) == [k \in 1..Len(seq) |-> seq[Len(seq) + 1 - k]]

\* resolveContext.push: a new frame at the end of the context
push(ctx, component, name) == Append(ctx, <<component, name>>)

\* resolveContext.error: the message followed by the frames, last pushed first
ctxError(ctx, msg, name) ==
    [msg |-> msg, name |-> name, kind |-> "", frames |-> Reverse(ctx)]

getStringValue(s) == IF s = NilRef THEN "" ELSE s[1]

newResolver ==
    [registeredNames |-> << >>,
     templateClocks |-> << >>, templateSources |-> << >>, templateValues |-> << >>,
     instanceClocks |-> << >>, instanceSources |-> << >>, instanceValues |-> << >>]

\* Mutant: a name may be reused by an entity of another kind.
registerNameSameKindOnly(r, name, entityType) ==
    IF name \in DOMAIN r.registeredNames /\ r.registeredNames[name] = entityType
    THEN [r |-> r,
          err |-> [msg |-> "name already used", name |-> name,
                   kind |-> r.registeredNames[name], frames |-> << >>]]
    ELSE [r |-> [r EXCEPT !.registeredNames =
                    [n \in (DOMAIN @) \cup {name} |-> IF n = name THEN entityType ELSE @[n]]],
          err |-> NoError]

registerName(r, name, entityType) ==
    IF name \in DOMAIN r.registeredNames
    THEN [r |-> r,
          err |-> [msg |-> "name already used", name |-> name,
                   kind |-> r.registeredNames[name], frames |-> << >>]]
    ELSE [r |-> [r EXCEPT !.registeredNames = (name :> entityType) @@ @],
          err |-> NoError]

----------------------------------------------------------------------------
(* Resolver: clocks *)

validateClock(resolved, ctx, typeMsg, intervalMsg) ==
    IF resolved.Type = "" THEN ctxError(ctx, typeMsg, "")
    ELSE IF resolved.Interval = 0 THEN ctxError(ctx, intervalMsg, "")
    ELSE NoError

\* One iteration of the loop of resolveTemplateClocks.
resolveTemplateClock(r, raw) ==
    LET reg == registerName(r, raw.Name, "template clock")
        ctx == push(<< >>, "clock template", raw.Name)
        resolved == ClockConfig(getStringValue(raw.Type), raw.Interval)
        verr == validateClock(resolved, ctx, "type required", "interval required") IN
    IF reg.err # NoError THEN [r |-> r, err |-> reg.err]
    ELSE IF verr # NoError THEN [r |-> reg.r, err |-> verr]
    ELSE [r |-> [reg.r EXCEPT !.templateClocks = (raw.Name :> resolved) @@ @],
          err |-> NoError]

\* One iteration of the loop of resolveInstanceClocks.
resolveInstanceClock(r, raw) ==
    LET reg == registerName(r, raw.Name, "instance clock")
        ctx == push(<< >>, "clock instance", raw.Name)
        resolved == ClockConfig(getStringValue(raw.Type), raw.Interval)
        verr == validateClock(resolved, ctx, "type required", "interval required") IN
    IF reg.err # NoError THEN [r |-> r, err |-> reg.err]
    ELSE IF verr # NoError THEN [r |-> reg.r, err |-> verr]
    ELSE [r |-> [reg.r EXCEPT !.instanceClocks = (raw.Name :> resolved) @@ @],
          err |-> NoError]

ClockResult(cfg, ref, err) == [cfg |-> cfg, ref |-> ref, err |-> err]

\* Mutant: overrides on an instance reference are applied instead of rejected.
resolveClockReferenceOverrideInstance(r, raw, ctx) ==
    IF raw.Instance # ""
    THEN IF raw.Instance \notin DOMAIN r.instanceClocks
         THEN ClockResult(ZeroClock, NilRef, ctxError(ctx, "clock instance not found", raw.Instance))
         ELSE ClockResult([Type |-> IF raw.Type # NilRef THEN raw.Type[1]
                                    ELSE r.instanceClocks[raw.Instance].Type,
                           Interval |-> IF raw.Interval # 0 THEN raw.Interval
                                        ELSE r.instanceClocks[raw.Instance].Interval],
                          Ref(raw.Instance), NoError)
    ELSE IF raw.Template # ""
    THEN IF raw.Template \notin DOMAIN r.templateClocks
         THEN ClockResult(ZeroClock, NilRef, ctxError(ctx, "clock template not found", raw.Template))
         ELSE ClockResult([Type |-> IF raw.Type # NilRef THEN raw.Type[1]
                                    ELSE r.templateClocks[raw.Template].Type,
                           Interval |-> IF raw.Interval # 0 THEN raw.Interval
                                        ELSE r.templateClocks[raw.Template].Interval],
                          NilRef, NoError)
    ELSE IF raw.Type # NilRef
    THEN LET resolved == ClockConfig(raw.Type[1], raw.Interval)
             verr == validateClock(resolved, ctx, "clock type required", "clock interval required") IN
         IF verr # NoError THEN ClockResult(ZeroClock, NilRef, verr)
         ELSE ClockResult(resolved, NilRef, NoError)
    ELSE ClockResult(ZeroClock, NilRef,
             ctxError(ctx, "clock must reference instance, template, or provide inline definition", ""))

\* Mutant: an interval override also resets the type.
resolveClockReferenceClobber(r, raw, ctx) ==
    IF raw.Instance # ""
    THEN IF raw.Instance \notin DOMAIN r.instanceClocks
         THEN ClockResult(ZeroClock, NilRef, ctxError(ctx, "clock instance not found", raw.Instance))
         ELSE IF raw.Template # "" \/ raw.Type # NilRef \/ raw.Interval # 0
         THEN ClockResult(ZeroClock, NilRef, ctxError(ctx, "cannot override instance clock", ""))
         ELSE ClockResult(r.instanceClocks[raw.Instance], Ref(raw.Instance), NoError)
    ELSE IF raw.Template # ""
    THEN IF raw.Template \notin DOMAIN r.templateClocks
         THEN ClockResult(ZeroClock, NilRef, ctxError(ctx, "clock template not found", raw.Template))
         ELSE ClockResult([Type |-> IF raw.Type # NilRef THEN raw.Type[1]
                                    ELSE IF raw.Interval # 0 THEN ""
                                    ELSE r.templateClocks[raw.Template].Type,
                           Interval |-> IF raw.Interval # 0 THEN raw.Interval
                                        ELSE r.templateClocks[raw.Template].Interval],
                          NilRef, NoError)
    ELSE IF raw.Type # NilRef
    THEN LET resolved == ClockConfig(raw.Type[1], raw.Interval)
             verr == validateClock(resolved, ctx, "clock type required", "clock interval required") IN
         IF verr # NoError THEN ClockResult(ZeroClock, NilRef, verr)
         ELSE ClockResult(resolved, NilRef, NoError)
    ELSE ClockResult(ZeroClock, NilRef,
             ctxError(ctx, "clock must reference instance, template, or provide inline definition", ""))

\* resolveClockReference where a template reference also reports a name.
resolveClockReferenceNameTemplate(r, raw, ctx) ==
    IF raw.Instance # ""
    THEN IF raw.Instance \notin DOMAIN r.instanceClocks
         THEN ClockResult(ZeroClock, NilRef, ctxError(ctx, "clock instance not found", raw.Instance))
         ELSE IF raw.Template # "" \/ raw.Type # NilRef \/ raw.Interval # 0
         THEN ClockResult(ZeroClock, NilRef, ctxError(ctx, "cannot override instance clock", ""))
         ELSE ClockResult(r.instanceClocks[raw.Instance], Ref(raw.Instance), NoError)
    ELSE IF raw.Template # ""
    THEN IF raw.Template \notin DOMAIN r.templateClocks
         THEN ClockResult(ZeroClock, NilRef, ctxError(ctx, "clock template not found", raw.Template))
         ELSE ClockResult([Type |-> IF raw.Type # NilRef THEN raw.Type[1]
                                    ELSE r.templateClocks[raw.Template].Type,
                           Interval |-> IF raw.Interval # 0 THEN raw.Interval
                                        ELSE r.templateClocks[raw.Template].Interval],
                          Ref(raw.Template), NoError)
    ELSE IF raw.Type # NilRef
    THEN LET resolved == ClockConfig(raw.Type[1], raw.Interval)
             verr == validateClock(resolved, ctx, "clock type required", "clock interval required") IN
         IF verr # NoError THEN ClockResult(ZeroClock, NilRef, verr)
         ELSE ClockResult(resolved, NilRef, NoError)
    ELSE ClockResult(ZeroClock, NilRef,
             ctxError(ctx, "clock must reference instance, template, or provide inline definition", ""))

\* resolveClockReference where an instance reference to a name that is not a
\* clock instance falls back to the clock template of that name.
resolveClockReferenceAnyKind(r, raw, ctx) ==
    IF raw.Instance # ""
    THEN IF raw.Instance \notin DOMAIN r.instanceClocks
         THEN IF raw.Instance \in DOMAIN r.templateClocks
              THEN ClockResult(r.templateClocks[raw.Instance], NilRef, NoError)
              ELSE ClockResult(ZeroClock, NilRef,
                               ctxError(ctx, "clock instance not found", raw.Instance))
         ELSE IF raw.Template # "" \/ raw.Type # NilRef \/ raw.Interval # 0
         THEN ClockResult(ZeroClock, NilRef, ctxError(ctx, "cannot override instance clock", ""))
         ELSE ClockResult(r.instanceClocks[raw.Instance], Ref(raw.Instance), NoError)
    ELSE IF raw.Template # ""
    THEN IF raw.Template \notin DOMAIN r.templateClocks
         THEN ClockResult(ZeroClock, NilRef, ctxError(ctx, "clock template not found", raw.Template))
         ELSE ClockResult([Type |-> IF raw.Type # NilRef THEN raw.Type[1]
                                    ELSE r.templateClocks[raw.Template].Type,
                           Interval |-> IF raw.Interval # 0 THEN raw.Interval
                                        ELSE r.templateClocks[raw.Template].Interval],
                          NilRef, NoError)
    ELSE IF raw.Type # NilRef
    THEN LET resolved == ClockConfig(raw.Type[1], raw.Interval)
             verr == validateClock(resolved, ctx, "clock type required", "clock interval required") IN
         IF verr # NoError THEN ClockResult(ZeroClock, NilRef, verr)
         ELSE ClockResult(resolved, NilRef, NoError)
    ELSE ClockResult(ZeroClock, NilRef,
             ctxError(ctx, "clock must reference instance, template, or provide inline definition", ""))

resolveClockReference(r, raw, ctx) ==
    IF raw.Instance # ""
    THEN IF raw.Instance \notin DOMAIN r.instanceClocks
         THEN ClockResult(ZeroClock, NilRef, ctxError(ctx, "clock instance not found", raw.Instance))
         ELSE IF raw.Template # "" \/ raw.Type # NilRef \/ raw.Interval # 0
         THEN ClockResult(ZeroClock, NilRef, ctxError(ctx, "cannot override instance clock", ""))
         ELSE ClockResult(r.instanceClocks[raw.Instance], Ref(raw.Instance), NoError)
    ELSE IF raw.Template # ""
    THEN IF raw.Template \notin DOMAIN r.templateClocks
         THEN ClockResult(ZeroClock, NilRef, ctxError(ctx, "clock template not found", raw.Template))
         ELSE ClockResult([Type |-> IF raw.Type # NilRef THEN raw.Type[1]
                                    ELSE r.templateClocks[raw.Template].Type,
                           Interval |-> IF raw.Interval # 0 THEN raw.Interval
                                        ELSE r.templateClocks[raw.Template].Interval],
                          NilRef, NoError)
    ELSE IF raw.Type # NilRef
    THEN LET resolved == ClockConfig(raw.Type[1], raw.Interval)
             verr == validateClock(resolved, ctx, "clock type required", "clock interval required") IN
         IF verr # NoError THEN ClockResult(ZeroClock, NilRef, verr)
         ELSE ClockResult(resolved, NilRef, NoError)
    ELSE ClockResult(ZeroClock, NilRef,
             ctxError(ctx, "clock must reference instance, template, or provide inline definition", ""))

----------------------------------------------------------------------------
(* Resolver: sources *)

SourceResult(cfg, ref, err) == [cfg |-> cfg, ref |-> ref, err |-> err]

\* The body shared by the loops of resolveTemplateSources and
\* resolveInstanceSources: type, optional clock reference, optional bounds.
resolveSourceDefinition(r, raw, ctx) ==
    Only({
        LET resolved == SourceConfig(getStringValue(raw.Type), c.cfg, c.ref,
                                     IF raw.Min # NilRef THEN raw.Min[1] ELSE 0,
                                     IF raw.Max # NilRef THEN raw.Max[1] ELSE 0) IN
        IF c.err # NoError THEN SourceResult(ZeroSource, NilRef, c.err)
        ELSE IF resolved.Type = ""
        THEN SourceResult(ZeroSource, NilRef, ctxError(ctx, "type required", ""))
        ELSE SourceResult(resolved, NilRef, NoError) :
        c \in {IF raw.Clock # NilRef THEN resolveClockReference(r, raw.Clock[1], ctx)
               ELSE ClockResult(ZeroClock, NilRef, NoError)}})

\* One iteration of the loop of resolveTemplateSources.
resolveTemplateSource(r, raw) ==
    LET reg == registerName(r, raw.Name, "template source")
        ctx == push(<< >>, "source template", raw.Name) IN
    IF reg.err # NoError THEN [r |-> r, err |-> reg.err]
    ELSE Only({
        IF d.err # NoError THEN [r |-> reg.r, err |-> d.err]
        ELSE [r |-> [reg.r EXCEPT !.templateSources = (raw.Name :> d.cfg) @@ @],
              err |-> NoError] :
        d \in {resolveSourceDefinition(reg.r, raw, ctx)}})

\* One iteration of the loop of resolveInstanceSources.
resolveInstanceSource(r, raw) ==
    LET reg == registerName(r, raw.Name, "instance source")
        ctx == push(<< >>, "source instance", raw.Name) IN
    IF reg.err # NoError THEN [r |-> r, err |-> reg.err]
    ELSE Only({
        IF d.err # NoError THEN [r |-> reg.r, err |-> d.err]
        ELSE [r |-> [reg.r EXCEPT !.instanceSources = (raw.Name :> d.cfg) @@ @],
              err |-> NoError] :
        d \in {resolveSourceDefinition(reg.r, raw, ctx)}})

\* Mutant: a clock override on a template reference keeps the template's ClockRef.
resolveSourceReferenceStaleClockRef(r, raw, ctx) ==
    IF raw.Instance # ""
    THEN IF raw.Instance \notin DOMAIN r.instanceSources
         THEN SourceResult(ZeroSource, NilRef, ctxError(ctx, "source instance not found", raw.Instance))
         ELSE IF raw.Template # "" \/ raw.Type # NilRef \/ raw.Clock # NilRef
                 \/ raw.Min # NilRef \/ raw.Max # NilRef
         THEN SourceResult(ZeroSource, NilRef, ctxError(ctx, "cannot override instance source", ""))
         ELSE SourceResult(r.instanceSources[raw.Instance], Ref(raw.Instance), NoError)
    ELSE IF raw.Template # ""
    THEN IF raw.Template \notin DOMAIN r.templateSources
         THEN SourceResult(ZeroSource, NilRef, ctxError(ctx, "source template not found", raw.Template))
         ELSE LET template == r.templateSources[raw.Template] IN
              Only({
                  IF c.err # NoError THEN SourceResult(ZeroSource, NilRef, c.err)
                  ELSE SourceResult(
                           SourceConfig(IF raw.Type # NilRef THEN raw.Type[1] ELSE template.Type,
                                        c.cfg, template.ClockRef,
                                        IF raw.Min # NilRef THEN raw.Min[1] ELSE template.Min,
                                        IF raw.Max # NilRef THEN raw.Max[1] ELSE template.Max),
                           NilRef, NoError) :
                  c \in {IF raw.Clock # NilRef THEN resolveClockReference(r, raw.Clock[1], ctx)
                         ELSE ClockResult(template.Clock, template.ClockRef, NoError)}})
    ELSE IF raw.Type # NilRef
    THEN Only({
             LET result == SourceConfig(raw.Type[1], c.cfg, c.ref,
                                        IF raw.Min # NilRef THEN raw.Min[1] ELSE 0,
                                        IF raw.Max # NilRef THEN raw.Max[1] ELSE 0) IN
             IF c.err # NoError THEN SourceResult(ZeroSource, NilRef, c.err)
             ELSE IF result.Type = ""
             THEN SourceResult(ZeroSource, NilRef, ctxError(ctx, "source type required", ""))
             ELSE SourceResult(result, NilRef, NoError) :
             c \in {IF raw.Clock # NilRef THEN resolveClockReference(r, raw.Clock[1], ctx)
                    ELSE ClockResult(ZeroClock, NilRef, NoError)}})
    ELSE SourceResult(ZeroSource, NilRef,
             ctxError(ctx, "source must reference instance, template, or provide inline definition", ""))

\* resolveSourceReference: a named instance, a template with overrides, or an
\* inline definition
resolveSourceReference(r, raw, ctx) ==
    IF raw.Instance # ""
    THEN IF raw.Instance \notin DOMAIN r.instanceSources
         THEN SourceResult(ZeroSource, NilRef, ctxError(ctx, "source instance not found", raw.Instance))
         ELSE IF raw.Template # "" \/ raw.Type # NilRef \/ raw.Clock # NilRef
                 \/ raw.Min # NilRef \/ raw.Max # NilRef
         THEN SourceResult(ZeroSource, NilRef, ctxError(ctx, "cannot override instance source", ""))
         ELSE SourceResult(r.instanceSources[raw.Instance], Ref(raw.Instance), NoError)
    ELSE IF raw.Template # ""
    THEN IF raw.Template \notin DOMAIN r.templateSources
         THEN SourceResult(ZeroSource, NilRef, ctxError(ctx, "source template not found", raw.Template))
         ELSE LET template == r.templateSources[raw.Template] IN
              Only({
                  IF c.err # NoError THEN SourceResult(ZeroSource, NilRef, c.err)
                  ELSE SourceResult(
                           SourceConfig(IF raw.Type # NilRef THEN raw.Type[1] ELSE template.Type,
                                        c.cfg, c.ref,
                                        IF raw.Min # NilRef THEN raw.Min[1] ELSE template.Min,
                                        IF raw.Max # NilRef THEN raw.Max[1] ELSE template.Max),
                           NilRef, NoError) :
                  c \in {IF raw.Clock # NilRef THEN resolveClockReference(r, raw.Clock[1], ctx)
                         ELSE ClockResult(template.Clock, template.ClockRef, NoError)}})
    ELSE IF raw.Type # NilRef
    THEN Only({
             LET result == SourceConfig(raw.Type[1], c.cfg, c.ref,
                                        IF raw.Min # NilRef THEN raw.Min[1] ELSE 0,
                                        IF raw.Max # NilRef THEN raw.Max[1] ELSE 0) IN
             IF c.err # NoError THEN SourceResult(ZeroSource, NilRef, c.err)
             ELSE IF result.Type = ""
             THEN SourceResult(ZeroSource, NilRef, ctxError(ctx, "source type required", ""))
             ELSE SourceResult(result, NilRef, NoError) :
             c \in {IF raw.Clock # NilRef THEN resolveClockReference(r, raw.Clock[1], ctx)
                    ELSE ClockResult(ZeroClock, NilRef, NoError)}})
    ELSE SourceResult(ZeroSource, NilRef,
             ctxError(ctx, "source must reference instance, template, or provide inline definition", ""))

----------------------------------------------------------------------------
(* Resolver: values and metrics *)

ValueResult(cfg, err) == [cfg |-> cfg, err |-> err]

validateValue(value, ctx) ==
    IF value.Source.Type = "" THEN ctxError(ctx, "source required", "")
    ELSE IF value.Source.Clock.Type = "" THEN ctxError(ctx, "clock required in source", "")
    ELSE NoError

\* The body shared by the loops of resolveTemplateValues and
\* resolveInstanceValues: optional source reference, transforms, reset, validation.
resolveValueDefinition(r, raw, ctx) ==
    Only({
        LET resolved == ValueConfig(sr.cfg, sr.ref, raw.Transforms, raw.Reset)
            verr == validateValue(resolved, ctx) IN
        IF sr.err # NoError THEN ValueResult(ZeroValue, sr.err)
        ELSE IF verr # NoError THEN ValueResult(ZeroValue, verr)
        ELSE ValueResult(resolved, NoError) :
        sr \in {IF raw.Source # NilRef THEN resolveSourceReference(r, raw.Source[1], ctx)
                ELSE SourceResult(ZeroSource, NilRef, NoError)}})

\* One iteration of the loop of resolveTemplateValues.
resolveTemplateValue(r, raw) ==
    LET reg == registerName(r, raw.Name, "template value")
        ctx == push(<< >>, "value template", raw.Name) IN
    IF reg.err # NoError THEN [r |-> r, err |-> reg.err]
    ELSE Only({
        IF d.err # NoError THEN [r |-> reg.r, err |-> d.err]
        ELSE [r |-> [reg.r EXCEPT !.templateValues = (raw.Name :> d.cfg) @@ @],
              err |-> NoError] :
        d \in {resolveValueDefinition(reg.r, raw, ctx)}})

\* One iteration of the loop of resolveInstanceValues.
resolveInstanceValue(r, raw) ==
    LET reg == registerName(r, raw.Name, "instance value")
        ctx == push(<< >>, "value instance", raw.Name) IN
    IF reg.err # NoError THEN [r |-> r, err |-> reg.err]
    ELSE Only({
        IF d.err # NoError THEN [r |-> reg.r, err |-> d.err]
        ELSE [r |-> [reg.r EXCEPT !.instanceValues = (raw.Name :> d.cfg) @@ @],
              err |-> NoError] :
        d \in {resolveValueDefinition(reg.r, raw, ctx)}})

resolveValue(r, raw, ctx) ==
    IF raw.Instance # ""
    THEN IF raw.Instance \notin DOMAIN r.instanceValues
         THEN ValueResult(ZeroValue, ctxError(ctx, "value instance not found", raw.Instance))
         ELSE IF raw.Template # "" \/ raw.Source # NilRef
                 \/ Len(raw.Transforms) > 0 \/ raw.Reset.Type # ""
         THEN ValueResult(ZeroValue, ctxError(ctx, "cannot override instance value", ""))
         ELSE ValueResult(r.instanceValues[raw.Instance], NoError)
    ELSE IF raw.Template # ""
    THEN IF raw.Template \notin DOMAIN r.templateValues
         THEN ValueResult(ZeroValue, ctxError(ctx, "value template not found", raw.Template))
         ELSE LET template == r.templateValues[raw.Template] IN
              Only({
                  IF sr.err # NoError THEN ValueResult(ZeroValue, sr.err)
                  ELSE ValueResult(
                           ValueConfig(sr.cfg, sr.ref,
                                       IF Len(raw.Transforms) > 0 THEN raw.Transforms
                                       ELSE template.Transforms,
                                       IF raw.Reset.Type # "" THEN raw.Reset ELSE template.Reset),
                           NoError) :
                  sr \in {IF raw.Source # NilRef
                          THEN resolveSourceReference(r, raw.Source[1], ctx)
                          ELSE SourceResult(template.Source, template.SourceRef, NoError)}})
    ELSE IF raw.Source = NilRef
    THEN ValueResult(ZeroValue,
             ctxError(ctx, "value must reference instance, template, or provide inline source", ""))
    ELSE Only({
             IF sr.err # NoError THEN ValueResult(ZeroValue, sr.err)
             ELSE ValueResult(ValueConfig(sr.cfg, sr.ref, raw.Transforms, raw.Reset), NoError) :
             sr \in {resolveSourceReference(r, raw.Source[1], ctx)}})

\* validateMetric without the description check.
validateMetricNoDescription(metric, ctx) ==
    IF metric.Type = "" THEN ctxError(ctx, "type required", "")
    ELSE IF metric.Type # MetricTypeCounter /\ metric.Type # MetricTypeGauge
    THEN ctxError(ctx, "invalid type", metric.Type)
    ELSE IF metric.Value.Source.Type = "" THEN ctxError(ctx, "value source required", "")
    ELSE NoError

validateMetric(metric, ctx) ==
    IF metric.Type = "" THEN ctxError(ctx, "type required", "")
    ELSE IF metric.Type # MetricTypeCounter /\ metric.Type # MetricTypeGauge
    THEN ctxError(ctx, "invalid type", metric.Type)
    ELSE IF metric.Description = "" THEN ctxError(ctx, "description required", "")
    ELSE IF metric.Value.Source.Type = "" THEN ctxError(ctx, "value source required", "")
    ELSE NoError

\* resolveMetric: [cfg, err]
resolveMetric(r, raw, ctx) ==
    Only({
        LET result == MetricConfig(raw.Name, raw.Type, raw.Description, v.cfg)
            verr == validateMetric(result, ctx) IN
        IF v.err # NoError THEN [cfg |-> ZeroMetric, err |-> v.err]
        ELSE IF verr # NoError THEN [cfg |-> ZeroMetric, err |-> verr]
        ELSE [cfg |-> result, err |-> NoError] :
        v \in {resolveValue(r, raw.Value, ctx)}})

----------------------------------------------------------------------------
(* Resolver: raw inputs *)

NameOrNone == {""} \cup Names

\* Named clock definitions (templates.clocks, instances.clocks)
RawClockDefs ==
    {RawClock(n, "", "", ti[1], ti[2]) :
        n \in Names,
        ti \in {<<Ref("periodic"), 1>>, <<NilRef, 1>>, <<Ref("periodic"), 0>>,
                <<Ref("periodic"), -1>>}}

\* Clock references (the clock field of a source): to clock "a" or inline
ClockRefs ==
    {RawClock("", inst, tmpl, t, i) :
        inst \in {"", "a"}, tmpl \in {"", "a"},
        t \in {NilRef, Ref(""), Ref("periodic")}, i \in {0, 2}}
    \cup {RawClock("", "", "", Ref("periodic"), -1)}

PlainClockRefs ==
    {RawClock("", "", "", Ref("periodic"), 2),
     RawClock("", "a", "", NilRef, 0),
     RawClock("", "", "a", NilRef, 0)}

\* Named source definitions (templates.sources, instances.sources)
RawSourceDefs ==
    {RawSource(n, "", "", Ref("random_int"), c, Ref(3), Ref(5)) :
        n \in Names, c \in {NilRef} \cup {Ref(x) : x \in ClockRefs}}
    \cup {RawSource(n, "", "", NilRef, NilRef, Ref(3), Ref(5)) : n \in Names}

\* Source references (the source field of a value): to source "b" or inline
SourceRefs ==
    {RawSource("", inst, tmpl, t, c, NilRef, mx) :
        inst \in {"", "b"}, tmpl \in {"", "b"},
        t \in {NilRef, Ref("random_int")},
        c \in {NilRef} \cup {Ref(x) : x \in PlainClockRefs},
        mx \in {NilRef, Ref(7)}}
    \cup {RawSource("", "", "b", NilRef, NilRef, Ref(4), NilRef),
          RawSource("", "", "b", Ref(""), NilRef, NilRef, NilRef)}

PlainSourceRefs ==
    {RawSource("", "", "", Ref("random_int"), Ref(RawClock("", "", "", Ref("periodic"), 2)),
               Ref(4), Ref(7)),
     RawSource("", "b", "", NilRef, NilRef, NilRef, NilRef),
     RawSource("", "b", "", NilRef, NilRef, NilRef, Ref(7)),
     RawSource("", "", "b", NilRef, NilRef, NilRef, NilRef),
     RawSource("", "", "b", NilRef, NilRef, NilRef, Ref(7))}

\* Named value definitions (templates.values, instances.values)
RawValueDefs ==
    {RawValue(n, "", "", src, tr[1], tr[2]) :
        n \in Names,
        src \in {NilRef} \cup {Ref(x) : x \in PlainSourceRefs},
        tr \in {<<<< >>, ZeroReset>>,
                <<<<TransformConfig("accumulate")>>, ResetConfig("on_read", 0)>>}}

\* Value references (the value field of a metric): to value "a" or inline
ValueRefs ==
    {RawValue("", inst, tmpl, NilRef, tr, rst) :
        inst \in {"", "a"}, tmpl \in {"", "a"},
        tr \in {<< >>, <<TransformConfig("derive"), TransformConfig("accumulate")>>},
        rst \in {ZeroReset, ResetConfig("on_read", 9)}}
    \cup {RawValue("", "", tmpl, Ref(x), << >>, ZeroReset) :
            tmpl \in {"", "a"}, x \in SourceRefs}
    \cup {RawValue("", "a", "", Ref(x), << >>, ZeroReset) : x \in PlainSourceRefs}

RawMetrics ==
    {RawMetric("m", MetricTypeCounter, "d", v) : v \in ValueRefs}
    \cup {RawMetric("m", td[1], td[2], RawValue("", "a", "", NilRef, << >>, ZeroReset)) :
            td \in {<<MetricTypeGauge, "d">>, <<"", "d">>, <<"histogram", "d">>,
                    <<MetricTypeCounter, "">>}}

----------------------------------------------------------------------------
(* Resolver: the loops of Resolve *)

\* The phases in the order templates first, instances after them.
PhasesTemplatesFirst ==
    <<"iterators", "templateClocks", "templateSources", "templateValues",
      "instanceClocks", "instanceSources", "instanceValues", "metrics", "export",
      "settings", "done">>

Phases == <<"iterators", "templateClocks", "instanceClocks", "templateSources", "instanceSources",
            "templateValues", "instanceValues", "metrics", "export", "settings",
            "done">>

PhaseIndex(ph) == CHOOSE k \in 1..Len(Phases) : Phases[k] = ph

\* The log of a loop iteration: its entity <<name, entityType>> and the calls
\* of resolveClockReference, resolveSourceReference and resolveValue made in
\* it, outermost first, each with the reference raw and the result out.
NoCall == [kind |-> "none", entity |-> <<"", "">>, refs |-> << >>]
IterCall(name, entityType, refs) ==
    [kind |-> "iter", entity |-> <<name, entityType>>, refs |-> refs]
RefCall(kind, raw, out) == [kind |-> kind, raw |-> raw, out |-> out]

\* The call of resolveClockReference where a clock field is resolved.
ClockCalls(r, raw, ctx) == <<RefCall("clock", raw, resolveClockReference(r, raw, ctx))>>

\* resolveSourceReference and the call it makes for the reference's clock
\* (template branch with a clock override, inline branch with a clock).
SourceCalls(r, raw, ctx) ==
    <<RefCall("source", raw, resolveSourceReference(r, raw, ctx))>>
    \o (IF raw.Instance # "" \/ raw.Clock = NilRef THEN << >>
        ELSE IF raw.Template # "" /\ raw.Template \notin DOMAIN r.templateSources THEN << >>
        ELSE IF raw.Template = "" /\ raw.Type = NilRef THEN << >>
        ELSE ClockCalls(r, raw.Clock[1], ctx))

\* resolveValue and the call it makes for the reference's source
\* (template branch with a source override, inline branch).
ValueCalls(r, raw, ctx) ==
    <<RefCall("value", raw, resolveValue(r, raw, ctx))>>
    \o (IF raw.Instance # "" \/ raw.Source = NilRef THEN << >>
        ELSE IF raw.Template # "" /\ raw.Template \notin DOMAIN r.templateValues THEN << >>
        ELSE SourceCalls(r, raw.Source[1], ctx))

\* What an iteration over a named definition leaves behind.
\* DefinitionStep where a failed iteration does not end Resolve.
DefinitionStepKeepGoing(res, c) ==
    /\ rs' = res.r
    /\ rerr' = res.err
    /\ rphase' = rphase
    /\ call' = c
    /\ registered' = IF res.err.msg = "name already used" THEN registered ELSE registered + 1
    /\ UNCHANGED <<rawMetrics, outMetrics, genVars, expVars>>

DefinitionStep(res, c) ==
    /\ rs' = res.r
    /\ rerr' = res.err
    /\ rphase' = IF res.err = NoError THEN rphase ELSE "failed"
    /\ call' = c
    /\ registered' = IF res.err.msg = "name already used" THEN registered ELSE registered + 1
    /\ UNCHANGED <<rawMetrics, outMetrics, genVars, expVars>>

Iterating(ph) ==
    /\ rphase = ph
    /\ call.kind = "none"
    /\ registered < MaxDefs

ResolveTemplateClocks ==
    /\ Iterating("templateClocks")
    /\ \E raw \in RawClockDefs :
      \E res \in {resolveTemplateClock(rs, raw)} :
          DefinitionStep(res, IterCall(raw.Name, "template clock", << >>))

ResolveInstanceClocks ==
    /\ Iterating("instanceClocks")
    /\ \E raw \in RawClockDefs :
      \E res \in {resolveInstanceClock(rs, raw)} :
          DefinitionStep(res, IterCall(raw.Name, "instance clock", << >>))

\* The clock reference of a source definition is resolved after registerName.
ClockCallOf(raw, entityType, component) ==
    IterCall(raw.Name, entityType,
             IF raw.Clock = NilRef \/ raw.Name \in DOMAIN rs.registeredNames
             THEN << >>
             ELSE ClockCalls(rs, raw.Clock[1], push(<< >>, component, raw.Name)))

ResolveTemplateSources ==
    /\ Iterating("templateSources")
    /\ \E raw \in RawSourceDefs :
      \E res \in {resolveTemplateSource(rs, raw)}, c \in {ClockCallOf(raw, "template source", "source template")} :
          DefinitionStep(res, c)

ResolveInstanceSources ==
    /\ Iterating("instanceSources")
    /\ \E raw \in RawSourceDefs :
      \E res \in {resolveInstanceSource(rs, raw)}, c \in {ClockCallOf(raw, "instance source", "source instance")} :
          DefinitionStep(res, c)

\* The source reference of a value definition is resolved after registerName.
SourceCallOf(raw, entityType, component) ==
    IterCall(raw.Name, entityType,
             IF raw.Source = NilRef \/ raw.Name \in DOMAIN rs.registeredNames
             THEN << >>
             ELSE SourceCalls(rs, raw.Source[1], push(<< >>, component, raw.Name)))

ResolveTemplateValues ==
    /\ Iterating("templateValues")
    /\ \E raw \in RawValueDefs :
      \E res \in {resolveTemplateValue(rs, raw)}, c \in {SourceCallOf(raw, "template value", "value template")} :
          DefinitionStep(res, c)

\* One iteration of the loop of resolveInstanceValues over a definition of inputs.
ResolveInstanceValuesOver(inputs) ==
    /\ Iterating("instanceValues")
    /\ \E raw \in inputs :
      \E res \in {resolveInstanceValue(rs, raw)}, c \in {SourceCallOf(raw, "instance value", "value instance")} :
          DefinitionStep(res, c)

ResolveInstanceValues == ResolveInstanceValuesOver(RawValueDefs)

\* One iteration of the loop of resolveMetrics over a raw metric of inputs.
ResolveMetricsOver(inputs, max) ==
    /\ rphase = "metrics"
    /\ call.kind = "none"
    /\ Len(rawMetrics) < max
    /\ \E raw \in inputs :
      \E ctx \in {push(<< >>, "metric", raw.Name)} :
      \E m \in {resolveMetric(rs, raw, ctx)} :
        /\ rawMetrics' = Append(rawMetrics, raw)
        /\ outMetrics' = IF m.err = NoError THEN Append(outMetrics, m.cfg) ELSE << >>
        /\ rerr' = m.err
        /\ rphase' = IF m.err = NoError THEN rphase ELSE "failed"
        /\ call' = IterCall(raw.Name, "metric", ValueCalls(rs, raw.Value, ctx))
    /\ UNCHANGED <<rs, registered, genVars, expVars>>

ResolveMetrics == ResolveMetricsOver(RawMetrics, MaxRawMetrics)

\* The loop takes its next element: the iteration's locals are gone.
Continue ==
    /\ call.kind # "none"
    /\ rphase # "failed"
    /\ call' = NoCall
    /\ UNCHANGED <<rs, rphase, rerr, registered, rawMetrics, outMetrics, genVars, expVars>>

\* The loop of the current phase is exhausted: Resolve goes on to the next one.
NextPhase ==
    /\ call.kind = "none"
    /\ rphase \in {Phases[k] : k \in 1..(Len(Phases) - 1)}
                    \ {"iterators", "export", "settings"}
    /\ rphase' = Phases[PhaseIndex(rphase) + 1]
    /\ UNCHANGED <<rs, rerr, call, registered, rawMetrics, outMetrics, genVars, expVars>>

\* ExportConfig.Validate and the validation of the two exporters: the
\* configuration with the defaults applied, and the error.
DefaultPrometheusPort == 9090
DefaultPrometheusPath == "/metrics"
DefaultOTELTransport == "grpc"
DefaultOTELPortGRPC == 4317
DefaultOTELPortHTTP == 4318

ExportError(msg, name) == [msg |-> msg, name |-> name, kind |-> "", frames |-> << >>]

\* PrometheusExportConfig.Validate: [c, err]
PrometheusValidate(c) ==
    IF ~c.Enabled THEN [c |-> c, err |-> NoError]
    ELSE LET d == [c EXCEPT !.Port = IF @ = 0 THEN DefaultPrometheusPort ELSE @,
                            !.Path = IF @ = "" THEN DefaultPrometheusPath ELSE @] IN
         IF d.Port <= 0 \/ d.Port > 65535
         THEN [c |-> d, err |-> ExportError("invalid prometheus port", "")]
         ELSE [c |-> d, err |-> NoError]

\* OTELExportConfig.Validate: [c, err]
OTELValidate(c) ==
    IF ~c.Enabled THEN [c |-> c, err |-> NoError]
    ELSE LET t == [c EXCEPT !.Transport = IF @ = "" THEN DefaultOTELTransport ELSE @] IN
         IF t.Transport # "grpc" /\ t.Transport # "http"
         THEN [c |-> t, err |-> ExportError("invalid transport", t.Transport)]
         ELSE [c |-> [t EXCEPT !.Port = IF @ # 0 THEN @
                                        ELSE IF t.Transport = "grpc" THEN DefaultOTELPortGRPC
                                        ELSE DefaultOTELPortHTTP],
               err |-> NoError]

\* ExportConfig.Validate where two enabled exporters are accepted.
ExportValidateBoth(e) ==
    IF e.Prometheus = NilRef /\ e.OTEL = NilRef
    THEN [e |-> [e EXCEPT !.Prometheus = Ref([Enabled |-> TRUE,
                                              Port |-> DefaultPrometheusPort,
                                              Path |-> DefaultPrometheusPath])],
          err |-> NoError]
    ELSE IF e.Prometheus # NilRef /\ PrometheusValidate(e.Prometheus[1]).err # NoError
    THEN [e |-> e, err |-> PrometheusValidate(e.Prometheus[1]).err]
    ELSE IF e.OTEL # NilRef /\ OTELValidate(e.OTEL[1]).err # NoError
    THEN [e |-> e, err |-> OTELValidate(e.OTEL[1]).err]
    ELSE LET v == [Prometheus |-> IF e.Prometheus = NilRef THEN NilRef
                                  ELSE Ref(PrometheusValidate(e.Prometheus[1]).c),
                   OTEL |-> IF e.OTEL = NilRef THEN NilRef
                            ELSE Ref(OTELValidate(e.OTEL[1]).c)] IN
         IF ~(v.Prometheus # NilRef /\ v.Prometheus[1].Enabled)
               /\ ~(v.OTEL # NilRef /\ v.OTEL[1].Enabled)
         THEN [e |-> v, err |-> ExportError("at least one exporter must be enabled", "")]
         ELSE [e |-> v, err |-> NoError]

\* ExportConfig.Validate: [e, err]. The validation of a disabled exporter
\* returns at once, so it is as if it were skipped.
ExportValidate(e) ==
    IF e.Prometheus = NilRef /\ e.OTEL = NilRef
    THEN [e |-> [e EXCEPT !.Prometheus = Ref([Enabled |-> TRUE,
                                              Port |-> DefaultPrometheusPort,
                                              Path |-> DefaultPrometheusPath])],
          err |-> NoError]
    ELSE IF e.Prometheus # NilRef /\ PrometheusValidate(e.Prometheus[1]).err # NoError
    THEN [e |-> e, err |-> PrometheusValidate(e.Prometheus[1]).err]
    ELSE IF e.OTEL # NilRef /\ OTELValidate(e.OTEL[1]).err # NoError
    THEN [e |-> e, err |-> OTELValidate(e.OTEL[1]).err]
    ELSE LET v == [Prometheus |-> IF e.Prometheus = NilRef THEN NilRef
                                  ELSE Ref(PrometheusValidate(e.Prometheus[1]).c),
                   OTEL |-> IF e.OTEL = NilRef THEN NilRef
                            ELSE Ref(OTELValidate(e.OTEL[1]).c)]
             promEnabled == v.Prometheus # NilRef /\ v.Prometheus[1].Enabled
             otelEnabled == v.OTEL # NilRef /\ v.OTEL[1].Enabled IN
         IF ~promEnabled /\ ~otelEnabled
         THEN [e |-> v, err |-> ExportError("at least one exporter must be enabled", "")]
         ELSE IF promEnabled /\ otelEnabled
         THEN [e |-> v, err |-> ExportError("only one exporter can be enabled at a time", "")]
         ELSE [e |-> v, err |-> NoError]

\* resolveExport: the raw export section is copied and validated; an error
\* comes with the zero ExportConfig. [export, err]
resolveExport(raw) ==
    Only({IF v.err # NoError THEN [export |-> NoExport, err |-> v.err]
          ELSE [export |-> v.e, err |-> NoError] :
          v \in {ExportValidate([Prometheus |-> raw.Prometheus, OTEL |-> raw.OTEL])}})

\* SettingsConfig.Validate on the naming format of the internal metrics
SettingsValidate(format) ==
    IF format \in {"", "native", "underscore", "dot"} THEN NoError
    ELSE [msg |-> "invalid naming format", name |-> format, kind |-> "", frames |-> << >>]

\* resolveSettings: the raw settings are copied and validated
resolveSettings(raw) == SettingsValidate(raw.Format)

\* The export and settings sections of the raw configuration.
RawPrometheus ==
    {NilRef} \cup {Ref([Enabled |-> e, Port |-> p, Path |-> q]) :
                      e \in BOOLEAN, p \in {0, 8080, 70000, -1}, q \in {"", "/m"}}

RawOTEL ==
    {NilRef} \cup {Ref([Enabled |-> e, Transport |-> t, Port |-> p]) :
                      e \in BOOLEAN, t \in {"", "http", "udp"}, p \in {0, 4000}}

RawExports == {[Prometheus |-> p, OTEL |-> o] : p \in RawPrometheus, o \in RawOTEL}

\* The export sections Resolve is run on: none, OTEL only, both exporters.
ResolveExports ==
    {[Prometheus |-> NilRef, OTEL |-> NilRef],
     [Prometheus |-> NilRef, OTEL |-> Ref([Enabled |-> TRUE, Transport |-> "", Port |-> 0])],
     [Prometheus |-> Ref([Enabled |-> TRUE, Port |-> 0, Path |-> ""]),
      OTEL |-> Ref([Enabled |-> TRUE, Transport |-> "", Port |-> 0])]}

RawSettings == {[Format |-> f] : f \in {"", "dot", "camel"}}

\* A phase of Resolve after the metrics: it fails with err or goes on to next.
PhaseStep(err, next) ==
    /\ rerr' = err
    /\ rphase' = IF err = NoError THEN next ELSE "failed"
    /\ UNCHANGED <<rs, call, registered, rawMetrics, outMetrics, genVars, expVars>>

\* Phase 4 of Resolve
ResolveExport ==
    /\ rphase = "export"
    /\ \E raw \in ResolveExports : \E r \in {resolveExport(raw)} :
          /\ export' = r.export
          /\ rerr' = r.err
          /\ rphase' = IF r.err = NoError THEN "settings" ELSE "failed"
    /\ UNCHANGED <<rs, call, registered, rawMetrics, outMetrics, genVars, ex, fe, itr, sv>>

\* Phase 5 of Resolve
ResolveSettings ==
    /\ rphase = "settings"
    /\ \E raw \in RawSettings : PhaseStep(resolveSettings(raw), "done")

\* buildConfig: the instance maps and the resolved metrics; templates are dropped
buildConfig(r, ms) ==
    [Instances |-> [Clocks |-> r.instanceClocks, Sources |-> r.instanceSources,
                    Values |-> r.instanceValues],
     Metrics |-> ms]

----------------------------------------------------------------------------
(* Simulation primitives (internal/simulation, simv) *)

\* simulation.CreateClock: a fresh clock object, or an error for an unknown type
CreateClock(cfg) ==
    IF cfg.Type = "periodic"
    THEN [obj |-> [cfg |-> cfg, starts |-> 0, stops |-> 0], err |-> ""]
    ELSE [obj |-> Nil, err |-> "unknown clock type"]

\* simulation.CreateSource: a fresh source bound to clock clk
CreateSource(cfg, clk) ==
    IF cfg.Type = "random_int"
    THEN [obj |-> [cfg |-> cfg, clk |-> clk], err |-> ""]
    ELSE [obj |-> Nil, err |-> "unknown source type"]

\* simulation.CreateValue: a fresh value subscribed to source src
CreateValue(cfg, src) ==
    IF \A k \in 1..Len(cfg.Transforms) : cfg.Transforms[k].Type = "accumulate"
    THEN [obj |-> [cfg |-> cfg, src |-> src, cur |-> 0, stops |-> 0], err |-> ""]
    ELSE [obj |-> Nil, err |-> "unknown transform"]

----------------------------------------------------------------------------
(* Generator (internal/generator/generator.go) *)

NilGenerator ==
    [clocks |-> << >>, sources |-> << >>, values |-> << >>,
     clockInstances |-> << >>, sourceInstances |-> << >>, valueInstances |-> << >>,
     metricValues |-> << >>]

\* The state New works on: the generator under construction and the heaps.
NewState(ms) ==
    [g |-> [NilGenerator EXCEPT !.metricValues = [i \in 1..Len(ms) |-> Nil]],
     clockObjs |-> << >>, sourceObjs |-> << >>, valueObjs |-> << >>]

\* Mutant: the cache hit also appends to the ownership list.
getOrCreateClockDup(st, sourceCfg) ==
    IF sourceCfg.ClockRef # NilRef
    THEN LET instanceName == sourceCfg.ClockRef[1] IN
         IF instanceName \in DOMAIN st.g.clockInstances
         THEN [st |-> [st EXCEPT !.g.clocks = Append(@, st.g.clockInstances[instanceName])],
               clk |-> st.g.clockInstances[instanceName], err |-> ""]
         ELSE LET c == CreateClock(sourceCfg.Clock)
                  id == Len(st.clockObjs) + 1 IN
              IF c.err # "" THEN [st |-> st, clk |-> Nil, err |-> c.err]
              ELSE [st |-> [st EXCEPT !.clockObjs = Append(@, c.obj),
                                      !.g.clockInstances = (instanceName :> id) @@ @,
                                      !.g.clocks = Append(@, id)],
                    clk |-> id, err |-> ""]
    ELSE LET c == CreateClock(sourceCfg.Clock)
             id == Len(st.clockObjs) + 1 IN
         IF c.err # "" THEN [st |-> st, clk |-> Nil, err |-> c.err]
         ELSE [st |-> [st EXCEPT !.clockObjs = Append(@, c.obj),
                                 !.g.clocks = Append(@, id)],
               clk |-> id, err |-> ""]

\* Mutant: the instance cache is never consulted.
getOrCreateClockNoCache(st, sourceCfg) ==
    LET c == CreateClock(sourceCfg.Clock)
        id == Len(st.clockObjs) + 1 IN
    IF c.err # "" THEN [st |-> st, clk |-> Nil, err |-> c.err]
    ELSE [st |-> [st EXCEPT !.clockObjs = Append(@, c.obj),
                            !.g.clocks = Append(@, id)],
          clk |-> id, err |-> ""]

\* Mutant: inline clocks are cached under the empty name.
getOrCreateClockCacheInline(st, sourceCfg) ==
    LET instanceName == IF sourceCfg.ClockRef # NilRef THEN sourceCfg.ClockRef[1] ELSE "" IN
    IF instanceName \in DOMAIN st.g.clockInstances
    THEN [st |-> st, clk |-> st.g.clockInstances[instanceName], err |-> ""]
    ELSE LET c == CreateClock(sourceCfg.Clock)
             id == Len(st.clockObjs) + 1 IN
         IF c.err # "" THEN [st |-> st, clk |-> Nil, err |-> c.err]
         ELSE [st |-> [st EXCEPT !.clockObjs = Append(@, c.obj),
                                 !.g.clockInstances = (instanceName :> id) @@ @,
                                 !.g.clocks = Append(@, id)],
               clk |-> id, err |-> ""]

getOrCreateClock(st, sourceCfg) ==
    IF sourceCfg.ClockRef # NilRef
    THEN LET instanceName == sourceCfg.ClockRef[1] IN
         IF instanceName \in DOMAIN st.g.clockInstances
         THEN [st |-> st, clk |-> st.g.clockInstances[instanceName], err |-> ""]
         ELSE LET c == CreateClock(sourceCfg.Clock)
                  id == Len(st.clockObjs) + 1 IN
              IF c.err # "" THEN [st |-> st, clk |-> Nil, err |-> c.err]
              ELSE [st |-> [st EXCEPT !.clockObjs = Append(@, c.obj),
                                      !.g.clockInstances = (instanceName :> id) @@ @,
                                      !.g.clocks = Append(@, id)],
                    clk |-> id, err |-> ""]
    ELSE LET c == CreateClock(sourceCfg.Clock)
             id == Len(st.clockObjs) + 1 IN
         IF c.err # "" THEN [st |-> st, clk |-> Nil, err |-> c.err]
         ELSE [st |-> [st EXCEPT !.clockObjs = Append(@, c.obj),
                                 !.g.clocks = Append(@, id)],
               clk |-> id, err |-> ""]

\* Mutant: the instance cache is never consulted.
getOrCreateSourceNoCache(st, valueCfg, clk) ==
    LET s == CreateSource(valueCfg.Source, clk)
        id == Len(st.sourceObjs) + 1 IN
    IF s.err # "" THEN [st |-> st, src |-> Nil, err |-> s.err]
    ELSE [st |-> [st EXCEPT !.sourceObjs = Append(@, s.obj),
                            !.g.sources = Append(@, id)],
          src |-> id, err |-> ""]

getOrCreateSource(st, valueCfg, clk) ==
    IF valueCfg.SourceRef # NilRef
    THEN LET instanceName == valueCfg.SourceRef[1] IN
         IF instanceName \in DOMAIN st.g.sourceInstances
         THEN [st |-> st, src |-> st.g.sourceInstances[instanceName], err |-> ""]
         ELSE LET s == CreateSource(valueCfg.Source, clk)
                  id == Len(st.sourceObjs) + 1 IN
              IF s.err # "" THEN [st |-> st, src |-> Nil, err |-> s.err]
              ELSE [st |-> [st EXCEPT !.sourceObjs = Append(@, s.obj),
                                      !.g.sourceInstances = (instanceName :> id) @@ @,
                                      !.g.sources = Append(@, id)],
                    src |-> id, err |-> ""]
    ELSE LET s == CreateSource(valueCfg.Source, clk)
             id == Len(st.sourceObjs) + 1 IN
         IF s.err # "" THEN [st |-> st, src |-> Nil, err |-> s.err]
         ELSE [st |-> [st EXCEPT !.sourceObjs = Append(@, s.obj),
                                 !.g.sources = Append(@, id)],
               src |-> id, err |-> ""]

\* Mutant: a value is reused for every metric on the same named source.
getOrCreateValueShared(st, valueCfg, src) ==
    LET prior == {k \in 1..Len(st.valueObjs) :
                     /\ st.valueObjs[k].src = src
                     /\ valueCfg.SourceRef # NilRef} IN
    IF prior # {}
    THEN [st |-> st, val |-> CHOOSE k \in prior : TRUE, err |-> ""]
    ELSE LET v == CreateValue(valueCfg, src)
             id == Len(st.valueObjs) + 1 IN
         IF v.err # "" THEN [st |-> st, val |-> Nil, err |-> v.err]
         ELSE [st |-> [st EXCEPT !.valueObjs = Append(@, v.obj),
                                 !.g.values = Append(@, id)],
               val |-> id, err |-> ""]

getOrCreateValue(st, valueCfg, src) ==
    LET v == CreateValue(valueCfg, src)
        id == Len(st.valueObjs) + 1 IN
    IF v.err # "" THEN [st |-> st, val |-> Nil, err |-> v.err]
    ELSE [st |-> [st EXCEPT !.valueObjs = Append(@, v.obj),
                            !.g.values = Append(@, id)],
          val |-> id, err |-> ""]

\* The loop body of New for metric i (1-based), then the rest of the loop.
RECURSIVE NewLoop(_, _, _)
NewLoop(st, ms, i) ==
    IF i > Len(ms) THEN [st |-> st, err |-> ""]
    ELSE Only({
         IF c.err # "" THEN [st |-> NewState(<< >>), err |-> "failed to create clock"]
         ELSE Only({
         IF s.err # "" THEN [st |-> NewState(<< >>), err |-> "failed to create source"]
         ELSE Only({
         IF v.err # "" THEN [st |-> NewState(<< >>), err |-> "failed to create value"]
         ELSE Only({NewLoop(next, ms, i + 1) :
                    next \in {[v.st EXCEPT !.g.metricValues[i] = v.val]}}) :
         v \in {getOrCreateValue(s.st, ms[i].Value, s.src)}}) :
         s \in {getOrCreateSource(c.st, ms[i].Value, c.clk)}}) :
         c \in {getOrCreateClock(st, ms[i].Value.Source)}})

\* Mutant: GetValue accepts index = len(metricValues).
GetValueOffByOne(gen, index) ==
    IF index < 0 \/ index > Len(gen.metricValues) THEN Nil
    ELSE IF index = Len(gen.metricValues) THEN gen.metricValues[index]
    ELSE gen.metricValues[index + 1]

\* GetValue takes Go's 0-based metric index.
GetValue(gen, index) ==
    IF index < 0 \/ index >= Len(gen.metricValues) THEN Nil
    ELSE gen.metricValues[index + 1]

\* Number of positions of seq that hold x.
Occurrences(seq, x) == Cardinality({k \in DOMAIN seq : seq[k] = x})

\* Mutant: Start skips the first entry of the ownership list.
StartClocksSkipFirst(gen, objs) ==
    [id \in DOMAIN objs |->
        [objs[id] EXCEPT !.starts = @ + Occurrences(Tail(gen.clocks), id)]]

\* Generator.Start: clk.Start() for each entry of g.clocks
StartClocks(gen, objs) ==
    [id \in DOMAIN objs |->
        [objs[id] EXCEPT !.starts = @ + Occurrences(gen.clocks, id)]]

\* Generator.Stop, first loop: clk.Stop() for each entry of g.clocks
StopClocks(gen, objs) ==
    [id \in DOMAIN objs |->
        [objs[id] EXCEPT !.stops = @ + Occurrences(gen.clocks, id)]]

\* Mutant: the values are stopped only when some clock had been started.
StopValuesOnlyStarted(gen, objs, cobjs) ==
    [id \in DOMAIN objs |->
        [objs[id] EXCEPT !.stops =
            IF \E c \in DOMAIN cobjs : cobjs[c].starts > 0
            THEN @ + Occurrences(gen.values, id) ELSE @]]

\* Generator.Stop, second loop: val.Stop() for each entry of g.values
StopValues(gen, objs, cobjs) ==
    [id \in DOMAIN objs |->
        [objs[id] EXCEPT !.stops = @ + Occurrences(gen.values, id)]]

----------------------------------------------------------------------------
(* Value stream: ticks and reads (simv primitives) *)

\* A clock runs from its first Start until its first Stop.
Running(c) == clockObjs[c].starts > 0 /\ clockObjs[c].stops = 0

SourcesOn(c) == {s \in DOMAIN sourceObjs : sourceObjs[s].clk = c}

\* A value receives observation x from its source and applies its transforms.
Publish(v, x) ==
    IF Len(v.cfg.Transforms) > 0 THEN [v EXCEPT !.cur = @ + x] ELSE [v EXCEPT !.cur = x]

\* Value(): the current value; reset-on-read then sets the reset value.
ReadValue(v) ==
    [ret |-> v.cur,
     obj |-> IF v.cfg.Reset.Type = "on_read" THEN [v EXCEPT !.cur = v.cfg.Reset.Value] ELSE v]

----------------------------------------------------------------------------
(* Actions of the lifecycle manager *)

\* generator.New(ms)
NewFrom(ms) ==
    \E r \in {NewLoop(NewState(ms), ms, 1)} :
    /\ metrics' = ms
    /\ phase' = IF r.err = "" THEN "built" ELSE "failed"
    /\ newErr' = r.err
    /\ g' = IF r.err = "" THEN r.st.g ELSE NilGenerator
    /\ clockObjs' = r.st.clockObjs
    /\ sourceObjs' = r.st.sourceObjs
    /\ valueObjs' = r.st.valueObjs
    /\ readSum' = [i \in 1..Len(ms) |-> 0]
    /\ UNCHANGED <<startCalls, stopCalls, ticks, reads, got, resVars, expVars>>

New ==
    /\ phase = "init"
    /\ NewFrom(metrics)

\* app.New: the generator is built from the metrics of the resolved Config.
\* config.Load parses before it resolves, and Parse rejects a configuration
\* without metrics.
AppNew ==
    /\ rphase = "done"
    /\ phase = "idle"
    /\ rawMetrics # << >>
    /\ NewFrom(buildConfig(rs, outMetrics).Metrics)

Start ==
    /\ phase = "built"
    /\ startCalls < MaxCalls
    /\ startCalls' = startCalls + 1
    /\ clockObjs' = StartClocks(g, clockObjs)
    /\ UNCHANGED <<metrics, phase, g, sourceObjs, valueObjs, newErr, stopCalls,
                   ticks, reads, readSum, got, resVars, expVars>>

Stop ==
    /\ phase = "built"
    /\ stopCalls < MaxCalls
    /\ stopCalls' = stopCalls + 1
    /\ clockObjs' = StopClocks(g, clockObjs)
    /\ valueObjs' = StopValues(g, valueObjs, clockObjs)
    /\ UNCHANGED <<metrics, phase, g, sourceObjs, newErr, startCalls,
                   ticks, reads, readSum, got, resVars, expVars>>

GetValueCall ==
    /\ phase = "built"
    /\ \E index \in -1..(Len(metrics) + 1) :
          got' = [called |-> TRUE, index |-> index, val |-> GetValue(g, index)]
    /\ UNCHANGED <<metrics, phase, g, clockObjs, sourceObjs, valueObjs, newErr,
                   startCalls, stopCalls, ticks, reads, readSum, resVars, expVars>>

\* One tick of clock c: every source on c publishes one observation in [Min, Max].
Tick ==
    /\ phase = "built"
    /\ ticks < MaxTicks
    /\ \E c \in DOMAIN clockObjs :
        /\ Running(c)
        /\ \E obs \in [SourcesOn(c) -> 0..ObsMax] :
            /\ \A s \in SourcesOn(c) :
                  obs[s] >= sourceObjs[s].cfg.Min /\ obs[s] <= sourceObjs[s].cfg.Max
            /\ valueObjs' = [v \in DOMAIN valueObjs |->
                  IF valueObjs[v].src \in SourcesOn(c)
                  THEN Publish(valueObjs[v], obs[valueObjs[v].src])
                  ELSE valueObjs[v]]
    /\ ticks' = ticks + 1
    /\ UNCHANGED <<metrics, phase, g, clockObjs, sourceObjs, newErr,
                   startCalls, stopCalls, reads, readSum, got, resVars, expVars>>

\* An exporter reads the value of the metric at 0-based index i.
Read ==
    /\ phase = "built"
    /\ reads < MaxReads
    /\ \E i \in 0..(Len(metrics) - 1) :
        LET v == GetValue(g, i)
            r == ReadValue(valueObjs[v]) IN
        /\ v # Nil
        /\ valueObjs' = [valueObjs EXCEPT ![v] = r.obj]
        /\ readSum' = [readSum EXCEPT ![i + 1] = @ + r.ret]
    /\ reads' = reads + 1
    /\ UNCHANGED <<metrics, phase, g, clockObjs, sourceObjs, newErr,
                   startCalls, stopCalls, ticks, got, resVars, expVars>>

----------------------------------------------------------------------------
(* Inputs of the lifecycle manager *)

Refs == {NilRef} \cup {Ref(n) : n \in Names}

Accumulate == <<TransformConfig("accumulate")>>
NoReset == ResetConfig("", 0)
ResetOnRead == ResetConfig("on_read", 0)

GenSourceConfigs ==
    {SourceConfig("random_int", ClockConfig("periodic", 1), cr, 0, ObsMax) :
        cr \in {NilRef, Ref("a")}}

\* Configurations that the simulation primitives reject.
BadValueConfigs ==
    {ValueConfig(SourceConfig("random_int", ClockConfig("sundial", 1), NilRef, 0, ObsMax),
                 NilRef, Accumulate, NoReset),
     ValueConfig(SourceConfig("constant", ClockConfig("periodic", 1), NilRef, 0, ObsMax),
                 NilRef, Accumulate, NoReset),
     ValueConfig(SourceConfig("random_int", ClockConfig("periodic", 1), NilRef, 0, ObsMax),
                 NilRef, <<TransformConfig("derive")>>, NoReset)}

GenValueConfigs ==
    {ValueConfig(s, sr, Accumulate, NoReset) : s \in GenSourceConfigs, sr \in Refs}
    \cup BadValueConfigs

GenMetrics == {MetricConfig("m", MetricTypeCounter, "d", v) : v \in GenValueConfigs}

GenMetricLists == UNION {[1..n -> GenMetrics] : n \in 0..MaxMetrics}

\* The coherent pair: clock instance "a", source instance "b" on it, a counter
\* (accumulate) and a gauge (accumulate, reset on read) on that source.
SharedSource == SourceConfig("random_int", ClockConfig("periodic", 1), Ref("a"), 0, ObsMax)
CounterMetric ==
    MetricConfig("events_total", MetricTypeCounter, "d",
                 ValueConfig(SharedSource, Ref("b"), Accumulate, NoReset))
GaugeMetric ==
    MetricConfig("events_current", MetricTypeGauge, "d",
                 ValueConfig(SharedSource, Ref("b"), Accumulate, ResetOnRead))
CoherentLists == {<<CounterMetric, GaugeMetric>>, <<GaugeMetric, CounterMetric>>}

----------------------------------------------------------------------------
(* Iterator engine and expansion (internal/config: iterators, expand) *)

\* A Go string is a sequence of characters. The characters of the names and
\* values used below: letters, digits, "_", "-" and the two braces.
Digits == <<"0", "1", "2", "3", "4", "5", "6", "7", "8", "9">>
IdentStart == {"i", "j", "k", "m", "x", "y", "z", "_"}
IdentChar == IdentStart \cup {Digits[d] : d \in DOMAIN Digits}

\* strconv.Itoa
RECURSIVE Itoa(_)
Itoa(n) ==
    IF n < 0 THEN <<"-">> \o Itoa(-n)
    ELSE IF n < 10 THEN <<Digits[n + 1]>>
    ELSE Itoa(n \div 10) \o <<Digits[(n % 10) + 1]>>

\* RawIterator; Start and End are Go pointers, Values is a slice.
RawIterator(name, type, start, end, values) ==
    [Name |-> name, Type |-> type, Start |-> start, End |-> end, Values |-> values]

\* Iterator: its generator is the function values, indexed from 0 by ValueAt.
Iterator(name, count, values) == [name |-> name, count |-> count, values |-> values]

\* NewRangeIterator where an empty range yields one value.
NewRangeIteratorNeverEmpty(name, start, end) ==
    IF end < start
    THEN Iterator(name, 1, <<Itoa(start)>>)
    ELSE Iterator(name, end - start + 1,
                  [i \in 1..(end - start + 1) |-> Itoa(start + i - 1)])

\* NewRangeIterator where the end of the range is exclusive.
NewRangeIteratorExclusive(name, start, end) ==
    IF end <= start
    THEN Iterator(name, 0, << >>)
    ELSE Iterator(name, end - start, [i \in 1..(end - start) |-> Itoa(start + i - 1)])

NewRangeIterator(name, start, end) ==
    IF end < start
    THEN Iterator(name, 0, << >>)
    ELSE Iterator(name, end - start + 1,
                  [i \in 1..(end - start + 1) |-> Itoa(start + i - 1)])

NewListIterator(name, values) == Iterator(name, Len(values), values)

ValueAt(it, index) == it.values[index + 1]

NoIterError == [msg |-> "", name |-> << >>, index |-> -1]
IterError(msg, name) == [msg |-> msg, name |-> name, index |-> -1]

\* IteratorRegistry: the map from iterator name to iterator.
NewIteratorRegistry == << >>

\* Register: [registry, err]
Register(registry, it) ==
    IF it.name \in DOMAIN registry
    THEN [registry |-> registry, err |-> IterError("already registered", it.name)]
    ELSE [registry |-> (it.name :> it) @@ registry, err |-> NoIterError]

\* GetIterators: [iterators, err]; fails on the first name that is not defined
GetIterators(registry, names) ==
    IF \E k \in DOMAIN names : names[k] \notin DOMAIN registry
    THEN LET k == CHOOSE k \in DOMAIN names :
                      /\ names[k] \notin DOMAIN registry
                      /\ \A j \in 1..(k - 1) : names[j] \in DOMAIN registry IN
         [iterators |-> << >>, err |-> IterError("iterator not defined", names[k])]
    ELSE [iterators |-> [k \in DOMAIN names |-> registry[names[k]]], err |-> NoIterError]

\* The product of the lengths of the first n iterators.
RECURSIVE LenProduct(_, _)
LenProduct(iterators, n) ==
    IF n = 0 THEN 1 ELSE LenProduct(iterators, n - 1) * iterators[n].count

\* NewCombinationGenerator where the total is the sum of the lengths.
RECURSIVE LenSum(_, _)
LenSum(iterators, n) ==
    IF n = 0 THEN 0 ELSE LenSum(iterators, n - 1) + iterators[n].count

NewCombinationGeneratorSum(iterators) ==
    [iterators |-> iterators, total |-> LenSum(iterators, Len(iterators))]

\* CombinationGenerator
NewCombinationGenerator(iterators) ==
    [iterators |-> iterators,
     total |-> IF Len(iterators) = 0 THEN 0 ELSE LenProduct(iterators, Len(iterators))]

\* valueIndex where every iterator is decoded with the radix 1.
valueIndexSameRadix(gen, i, index) == index % gen.iterators[i].count

\* valueIndex where the last iterator varies fastest.
valueIndexLastFastest(gen, i, index) ==
    (index \div (LenProduct(gen.iterators, Len(gen.iterators))
                    \div LenProduct(gen.iterators, i)))
        % gen.iterators[i].count

\* The value index Generate computes for the i-th iterator: repeat is the
\* product of the lengths of the iterators before it.
valueIndex(gen, i, index) ==
    (index \div LenProduct(gen.iterators, i - 1)) % gen.iterators[i].count

\* Generate where every iterator is decoded with the radix 1.
GenerateSameRadix(gen, index) ==
    [n \in {gen.iterators[i].name : i \in DOMAIN gen.iterators} |->
        LET i == CHOOSE i \in DOMAIN gen.iterators :
                     /\ gen.iterators[i].name = n
                     /\ \A j \in DOMAIN gen.iterators : gen.iterators[j].name = n => j <= i IN
        ValueAt(gen.iterators[i], index % gen.iterators[i].count)]

\* Generate: the combination at index, a map from iterator name to value. The
\* value index of the i-th iterator is (index / repeat) % Len, where repeat is
\* the product of the lengths of the iterators before it; a name that occurs
\* twice keeps the value written last.
Generate(gen, index) ==
    [n \in {gen.iterators[i].name : i \in DOMAIN gen.iterators} |->
        LET i == CHOOSE i \in DOMAIN gen.iterators :
                     /\ gen.iterators[i].name = n
                     /\ \A j \in DOMAIN gen.iterators : gen.iterators[j].name = n => j <= i IN
        ValueAt(gen.iterators[i], valueIndex(gen, i, index))]

\* One iteration of the loop of buildIteratorRegistry
buildIterator(raw) ==
    IF raw.Type = "range"
    THEN IF raw.Start = NilRef
         THEN [it |-> Iterator(<< >>, 0, << >>), err |-> IterError("start required for range type", raw.Name)]
         ELSE IF raw.End = NilRef
         THEN [it |-> Iterator(<< >>, 0, << >>), err |-> IterError("end required for range type", raw.Name)]
         ELSE [it |-> NewRangeIterator(raw.Name, raw.Start[1], raw.End[1]), err |-> NoIterError]
    ELSE IF raw.Type = "list"
    THEN IF Len(raw.Values) = 0
         THEN [it |-> Iterator(<< >>, 0, << >>), err |-> IterError("values required for list type", raw.Name)]
         ELSE [it |-> NewListIterator(raw.Name, raw.Values), err |-> NoIterError]
    ELSE [it |-> Iterator(<< >>, 0, << >>), err |-> IterError("unknown type", raw.Name)]

\* buildIteratorRegistry from its k-th raw iterator on: [registry, err]
RECURSIVE buildIteratorRegistryFrom(_, _, _)
buildIteratorRegistryFrom(rawIterators, k, registry) ==
    IF k > Len(rawIterators) THEN [registry |-> registry, err |-> NoIterError]
    ELSE Only({
        IF b.err # NoIterError THEN [registry |-> NewIteratorRegistry, err |-> b.err]
        ELSE Only({
            IF r.err # NoIterError THEN [registry |-> NewIteratorRegistry, err |-> r.err]
            ELSE buildIteratorRegistryFrom(rawIterators, k + 1, r.registry) :
            r \in {Register(registry, b.it)}}) :
        b \in {buildIterator(rawIterators[k])}})

buildIteratorRegistry(rawIterators) ==
    buildIteratorRegistryFrom(rawIterators, 1, NewIteratorRegistry)

\* NewExpander: [registry, err]; without iterators the registry is nil
NewExpander(iterators) ==
    IF Len(iterators) = 0 THEN [registry |-> NilRef, err |-> NoIterError]
    ELSE Only({
        IF b.err # NoIterError THEN [registry |-> NilRef, err |-> b.err]
        ELSE [registry |-> Ref(b.registry), err |-> NoIterError] :
        b \in {buildIteratorRegistry(iterators)}})

\* iteratorPattern, \{([a-zA-Z_][a-zA-Z0-9_]*)\}: the first position from k on
\* that does not hold a character of a name.
RECURSIVE identEnd(_, _)
identEnd(s, k) ==
    IF k > Len(s) THEN k
    ELSE IF s[k] \notin IdentChar THEN k
    ELSE identEnd(s, k + 1)

\* The position of the closing brace of a placeholder that starts at k, or 0.
matchEnd(s, k) ==
    IF s[k] # "{" THEN 0
    ELSE IF k + 1 > Len(s) THEN 0
    ELSE IF s[k + 1] \notin IdentStart THEN 0
    ELSE IF identEnd(s, k + 2) > Len(s) THEN 0
    ELSE IF s[identEnd(s, k + 2)] # "}" THEN 0
    ELSE identEnd(s, k + 2)

\* extractPlaceholderNames: the names of the placeholders of s, left to right
RECURSIVE extractFrom(_, _)
extractFrom(s, k) ==
    IF k > Len(s) THEN << >>
    ELSE IF matchEnd(s, k) # 0
    THEN <<SubSeq(s, k + 1, matchEnd(s, k) - 1)>> \o extractFrom(s, matchEnd(s, k) + 1)
    ELSE extractFrom(s, k + 1)

extractPlaceholderNames(s) == extractFrom(s, 1)

\* strings.ReplaceAll for a non-empty old
RECURSIVE ReplaceAllFrom(_, _, _, _)
ReplaceAllFrom(s, k, old, new) ==
    IF k > Len(s) THEN << >>
    ELSE IF k + Len(old) - 1 <= Len(s) /\ SubSeq(s, k, k + Len(old) - 1) = old
    THEN new \o ReplaceAllFrom(s, k + Len(old), old, new)
    ELSE <<s[k]>> \o ReplaceAllFrom(s, k + 1, old, new)

ReplaceAll(s, old, new) == ReplaceAllFrom(s, 1, old, new)

\* The orders in which a range loop can visit the keys S of a Go map.
MapOrders(S) ==
    {p \in [1..Cardinality(S) -> S] : \A a, b \in 1..Cardinality(S) : p[a] = p[b] => a = b}

\* substitutePlaceholders: the loop over iteratorValues visits its keys in order
RECURSIVE substitutePlaceholdersFrom(_, _, _, _)
substitutePlaceholdersFrom(s, iteratorValues, order, k) ==
    IF k > Len(order) THEN s
    ELSE substitutePlaceholdersFrom(
             ReplaceAll(s, <<"{">> \o order[k] \o <<"}">>, iteratorValues[order[k]]),
             iteratorValues, order, k + 1)

substitutePlaceholders(s, iteratorValues, order) ==
    substitutePlaceholdersFrom(s, iteratorValues, order, 1)

\* RawMetricNameConfig and the fields of RawMetricConfig that expansion reads
\* or copies; the metrics have no attributes and a value without placeholders.
RawMetricNameConfig(simple, prometheus, otel) ==
    [Simple |-> simple, Prometheus |-> prometheus, OTEL |-> otel]

RawMetricConfig(name, description) == [Name |-> name, Description |-> description]

SeqRange(seq) == {seq[k] : k \in DOMAIN seq}

\* RawMetricNameConfig.FindPlaceholders: the set found; its slice is in map order
NameFound(n) ==
    SeqRange(extractPlaceholderNames(n.Simple))
        \cup SeqRange(extractPlaceholderNames(n.Prometheus))
        \cup SeqRange(extractPlaceholderNames(n.OTEL))

\* RawMetricConfig.FindPlaceholders: the slices it can return
FindPlaceholders(m) == MapOrders(NameFound(m.Name))

\* RawMetricConfig.DeepCopy
DeepCopy(m) == m

\* RawMetricConfig.SubstitutePlaceholders
SubstitutePlaceholders(m, iteratorValues, order) ==
    [m EXCEPT !.Name =
        RawMetricNameConfig(substitutePlaceholders(m.Name.Simple, iteratorValues, order),
                            substitutePlaceholders(m.Name.Prometheus, iteratorValues, order),
                            substitutePlaceholders(m.Name.OTEL, iteratorValues, order))]

\* The clones that ForEach appends for an entity, one per combination index.
Clones(item, gen, order) ==
    [c \in 1..gen.total |->
        SubstitutePlaceholders(DeepCopy(item), Generate(gen, c - 1), order)]

\* Raw iterator definitions: ranges of 2, 1 and 0 values, a list of 3 values,
\* and definitions that buildIteratorRegistry rejects.
IterI == <<"i">>
IterJ == <<"j">>
IterK == <<"k">>

RawIterators ==
    {RawIterator(IterI, "range", Ref(1), Ref(2), << >>),
     RawIterator(IterI, "range", Ref(2), Ref(1), << >>),
     RawIterator(IterJ, "list", NilRef, NilRef, <<<<"x">>, <<"y">>, <<"z">>>>),
     RawIterator(IterJ, "range", Ref(9), Ref(10), << >>),
     RawIterator(IterJ, "range", Ref(3), Ref(0), << >>),
     RawIterator(IterJ, "list", NilRef, NilRef, << >>)}

\* Metrics: without placeholders, with one, with two, with the same one in two
\* name fields, with an undefined one, with braces that are no placeholder,
\* and with a placeholder in the description.
ExpMetrics ==
    {RawMetricConfig(RawMetricNameConfig(<<"m">>, << >>, << >>), <<"x">>),
     RawMetricConfig(RawMetricNameConfig(<<"m", "{", "i", "}">>, << >>, << >>), <<"x">>),
     RawMetricConfig(RawMetricNameConfig(<<"{", "i", "}", "_", "{", "j", "}">>, << >>, << >>),
                     <<"x">>),
     RawMetricConfig(RawMetricNameConfig(<< >>, <<"m", "{", "j", "}">>,
                                         <<"{", "j", "}", "{", "j", "}">>), <<"x">>),
     RawMetricConfig(RawMetricNameConfig(<<"m", "{", "k", "}">>, << >>, << >>), <<"x">>),
     RawMetricConfig(RawMetricNameConfig(<<"m", "{", "1", "}", "{", "}">>, << >>, << >>),
                     <<"x">>),
     RawMetricConfig(RawMetricNameConfig(<<"m">>, << >>, << >>), <<"{", "k", "}">>)}

SeqsUpTo(S, n) == UNION {[1..k -> S] : k \in 0..n}

\* The state of Expand: the raw configuration, the expander's registry, the
\* slice expanded, the index of the loop of expand, the error returned.
\* run counts the expansions of the raw configuration; first keeps what the
\* first one returned.
NoExpansion ==
    [Iterators |-> << >>, items |-> << >>, registry |-> NilRef, expanded |-> << >>,
     idx |-> 0, err |-> NoIterError, phase |-> "idle", run |-> 0, first |-> << >>]

ExpandFailed(err, index) ==
    ex' = [ex EXCEPT !.expanded = << >>, !.err = [err EXCEPT !.index = index],
                     !.phase = "failed"]

\* Expand: NewExpander(raw.Iterators)
ExpandNewExpander ==
    /\ ex.phase = "init"
    /\ \E e \in {NewExpander(ex.Iterators)} :
          IF e.err # NoIterError THEN ExpandFailed(e.err, -1)
          ELSE ex' = [ex EXCEPT !.registry = e.registry, !.phase = "expand"]
    /\ UNCHANGED <<genVars, resVars, fe, itr, sv, export>>

\* expand with a nil registry: the items are returned as they are
ExpandNoRegistry ==
    /\ ex.phase = "expand"
    /\ ex.registry = NilRef
    /\ ex' = [ex EXCEPT !.expanded = ex.items, !.idx = Len(ex.items) + 1,
                        !.phase = "done"]
    /\ UNCHANGED <<genVars, resVars, fe, itr, sv, export>>

\* expand: one iteration of the loop over items
ExpandItem ==
    /\ ex.phase = "expand"
    /\ ex.registry # NilRef
    /\ ex.idx <= Len(ex.items)
    /\ \E placeholders \in FindPlaceholders(ex.items[ex.idx]) :
          IF Len(placeholders) = 0
          THEN ex' = [ex EXCEPT !.expanded = Append(ex.expanded, ex.items[ex.idx]),
                                !.idx = ex.idx + 1]
          ELSE \E its \in {GetIterators(ex.registry[1], placeholders)} :
               IF its.err # NoIterError THEN ExpandFailed(its.err, ex.idx - 1)
               ELSE \E gen \in {NewCombinationGenerator(its.iterators)} :
                    IF gen.total = 0
                    THEN ExpandFailed(IterError("iterator combination produces zero results",
                                                << >>), ex.idx - 1)
                    ELSE \E order \in MapOrders(SeqRange(placeholders)) :
                         ex' = [ex EXCEPT
                                   !.expanded = ex.expanded
                                                   \o Clones(ex.items[ex.idx], gen, order),
                                   !.idx = ex.idx + 1]
    /\ UNCHANGED <<genVars, resVars, fe, itr, sv, export>>

\* expand: the loop is over, the expanded slice is returned
ExpandReturn ==
    /\ ex.phase = "expand"
    /\ ex.registry # NilRef
    /\ ex.idx > Len(ex.items)
    /\ ex' = [ex EXCEPT !.phase = "done"]
    /\ UNCHANGED <<genVars, resVars, fe, itr, sv, export>>

\* The same raw configuration is expanded once more, as by the next start of
\* the program: a new expander, the items as they were read.
ExpandAgain ==
    /\ ex.phase \in {"done", "failed"}
    /\ ex.run = 1
    /\ ex' = [ex EXCEPT !.first = <<[expanded |-> ex.expanded, err |-> ex.err]>>,
                        !.run = 2, !.registry = NilRef, !.expanded = << >>,
                        !.idx = 1, !.err = NoIterError, !.phase = "init"]
    /\ UNCHANGED <<genVars, resVars, fe, itr, sv, export>>

InitExp ==
    /\ metrics = << >>
    /\ phase = "idle"
    /\ g = NilGenerator
    /\ clockObjs = << >>
    /\ sourceObjs = << >>
    /\ valueObjs = << >>
    /\ newErr = ""
    /\ startCalls = 0
    /\ stopCalls = 0
    /\ ticks = 0
    /\ reads = 0
    /\ readSum = << >>
    /\ got = [called |-> FALSE, index |-> 0, val |-> Nil]
    /\ rs = newResolver
    /\ rphase = "idle"
    /\ rerr = NoError
    /\ call = NoCall
    /\ registered = 0
    /\ rawMetrics = << >>
    /\ outMetrics = << >>
    /\ fe = NoForEach
    /\ itr = NoIter
    /\ sv = NoServe
    /\ export = NoExport
    /\ \E its \in SeqsUpTo(RawIterators, MaxIterators), items \in SeqsUpTo(ExpMetrics, MaxItems) :
          ex = [NoExpansion EXCEPT !.Iterators = its, !.items = items, !.idx = 1,
                                   !.phase = "init", !.run = 1]

NextExp ==
    ExpandNewExpander \/ ExpandNoRegistry \/ ExpandItem \/ ExpandReturn \/ ExpandAgain

SpecExp == InitExp /\ [][NextExp]_vars

\* The iterator sections Resolve is run on: none, one range, a list without
\* values, the same name twice.
ResolveIterators ==
    {<< >>,
     <<RawIterator(IterI, "range", Ref(1), Ref(2), << >>)>>,
     <<RawIterator(IterJ, "list", NilRef, NilRef, << >>)>>,
     <<RawIterator(IterI, "range", Ref(1), Ref(2), << >>),
       RawIterator(IterI, "range", Ref(2), Ref(1), << >>)>>}

\* Phase 0 of Resolve, expandIterators: without iterators it returns at once;
\* otherwise the registry is built and the clock and source definitions are
\* expanded. The definitions the later phases draw hold no placeholder, so
\* their expansion returns them as they are.
ExpandIterators ==
    /\ rphase = "iterators"
    /\ \E its \in ResolveIterators :
          IF Len(its) = 0 THEN PhaseStep(NoError, "templateClocks")
          ELSE \E b \in {buildIteratorRegistry(its)} :
               IF b.err # NoIterError
               THEN PhaseStep([msg |-> "failed to build iterator registry", name |-> "",
                               kind |-> b.err.msg, frames |-> << >>], "templateClocks")
               ELSE PhaseStep(NoError, "templateClocks")

----------------------------------------------------------------------------
(* Iterator.ValueAt and CombinationGenerator.ForEach on their own *)

\* Iterator.ValueAt as a call: it panics for an index outside [0, Len()),
\* otherwise it returns the generator's value. (ValueAt above is the call with
\* an index in range, the only one Generate makes.)
IteratorValueAt(it, index) ==
    IF index < 0 \/ index >= it.count
    THEN [index |-> index, panic |-> TRUE, value |-> << >>]
    ELSE [index |-> index, panic |-> FALSE, value |-> ValueAt(it, index)]

\* The range bounds tried: negative numbers, zero, and numbers next to a
\* change in the number of digits.
RangeStarts == {-2, 0, 9, 98}
RangeSpans == (-2)..MaxSpan

NoValueAt == [index |-> -1, panic |-> FALSE, value |-> << >>]

\* NewRangeIterator(name, start, end)
IterNewRange ==
    /\ itr.phase = "init"
    /\ itr.type = "range"
    /\ itr' = [itr EXCEPT !.it = NewRangeIterator(IterI, itr.start, itr.end),
                          !.phase = "built"]
    /\ UNCHANGED <<genVars, resVars, ex, fe, sv, export>>

\* NewListIterator(name, values)
IterNewList ==
    /\ itr.phase = "init"
    /\ itr.type = "list"
    /\ itr' = [itr EXCEPT !.it = NewListIterator(IterJ, itr.values), !.phase = "built"]
    /\ UNCHANGED <<genVars, resVars, ex, fe, sv, export>>

\* it.ValueAt(index), for indices in and next to [0, Len())
IterValueAt ==
    /\ itr.phase = "built"
    /\ itr.calls < MaxValueAt
    /\ \E index \in (-1)..(itr.it.count + 1) :
          itr' = [itr EXCEPT !.at = IteratorValueAt(itr.it, index),
                             !.called = TRUE,
                             !.calls = itr.calls + 1]
    /\ UNCHANGED <<genVars, resVars, ex, fe, sv, export>>

\* The iterators handed to NewCombinationGenerator: ranges of 2 and of 0
\* values, a list of 3 values, a list that holds a value twice; two of them
\* share a name.
CombIterators ==
    {NewRangeIterator(IterI, 1, 2),
     NewRangeIterator(IterI, 2, 1),
     NewListIterator(IterJ, <<<<"x">>, <<"y">>, <<"z">>>>),
     NewRangeIterator(IterK, 9, 10),
     NewListIterator(<<"m">>, <<<<"x">>, <<"x">>>>)}

\* NewCombinationGenerator(iterators)
ForEachNew ==
    /\ fe.phase = "init"
    /\ fe' = [fe EXCEPT !.gen = NewCombinationGenerator(fe.iterators), !.i = 0,
                        !.phase = "loop"]
    /\ UNCHANGED <<genVars, resVars, ex, itr, sv, export>>

\* ForEach: one iteration of the loop. fn fails on the combination of index
\* failAt; its error is returned at once.
ForEachCall ==
    /\ fe.phase = "loop"
    /\ fe.i < fe.gen.total
    /\ IF fe.i = fe.failAt
       THEN fe' = [fe EXCEPT !.calls = Append(fe.calls, [index |-> fe.i,
                                                         combo |-> Generate(fe.gen, fe.i)]),
                             !.err = fe.i,
                             !.phase = "done"]
       ELSE fe' = [fe EXCEPT !.calls = Append(fe.calls, [index |-> fe.i,
                                                         combo |-> Generate(fe.gen, fe.i)]),
                             !.i = fe.i + 1]
    /\ UNCHANGED <<genVars, resVars, ex, itr, sv, export>>

\* ForEach: the loop is over, nil is returned
ForEachReturn ==
    /\ fe.phase = "loop"
    /\ fe.i >= fe.gen.total
    /\ fe' = [fe EXCEPT !.phase = "done"]
    /\ UNCHANGED <<genVars, resVars, ex, itr, sv, export>>

InitIdle ==
    /\ metrics = << >>
    /\ phase = "idle"
    /\ g = NilGenerator
    /\ clockObjs = << >>
    /\ sourceObjs = << >>
    /\ valueObjs = << >>
    /\ newErr = ""
    /\ startCalls = 0
    /\ stopCalls = 0
    /\ ticks = 0
    /\ reads = 0
    /\ readSum = << >>
    /\ got = [called |-> FALSE, index |-> 0, val |-> Nil]
    /\ rs = newResolver
    /\ rphase = "idle"
    /\ rerr = NoError
    /\ call = NoCall
    /\ registered = 0
    /\ rawMetrics = << >>
    /\ outMetrics = << >>

InitIter ==
    /\ InitIdle
    /\ ex = NoExpansion
    /\ fe = NoForEach
    /\ sv = NoServe
    /\ export = NoExport
    /\ \/ \E start \in RangeStarts, span \in RangeSpans :
             itr = [phase |-> "init", type |-> "range", start |-> start,
                    end |-> start + span, values |-> << >>,
                    it |-> Iterator(<< >>, 0, << >>), at |-> NoValueAt,
                    called |-> FALSE, calls |-> 0]
       \/ \E values \in SeqsUpTo({<<"x">>, <<"y">>}, MaxItems) :
             itr = [phase |-> "init", type |-> "list", start |-> 0, end |-> 0,
                    values |-> values,
                    it |-> Iterator(<< >>, 0, << >>), at |-> NoValueAt,
                    called |-> FALSE, calls |-> 0]

NextIter == IterNewRange \/ IterNewList \/ IterValueAt

SpecIter == InitIter /\ [][NextIter]_vars

InitComb ==
    /\ InitIdle
    /\ ex = NoExpansion
    /\ itr = NoIter
    /\ sv = NoServe
    /\ export = NoExport
    /\ \E its \in SeqsUpTo(CombIterators, MaxCombIterators), failAt \in (-1)..MaxFailAt :
          fe = [phase |-> "init", iterators |-> its,
                gen |-> [iterators |-> << >>, total |-> 0], i |-> 0,
                calls |-> << >>, failAt |-> failAt, err |-> -1]

NextComb == ForEachNew \/ ForEachCall \/ ForEachReturn

SpecComb == InitComb /\ [][NextComb]_vars

\* resolveExport on its own: a raw export section and what it resolves to.
ExportCall ==
    /\ rphase = "idle"
    /\ call = NoCall
    /\ \E raw \in RawExports : \E r \in {resolveExport(raw)} :
          /\ call' = [kind |-> "export", entity |-> <<"", "">>,
                      refs |-> <<RefCall("export", raw, r)>>]
          /\ export' = r.export
          /\ rerr' = r.err
    /\ UNCHANGED <<rs, rphase, registered, rawMetrics, outMetrics, genVars, ex, fe, itr, sv>>

InitExport ==
    /\ InitIdle
    /\ ex = NoExpansion
    /\ fe = NoForEach
    /\ itr = NoIter
    /\ sv = NoServe
    /\ export = NoExport

NextExport == ExportCall

SpecExport == InitExport /\ [][NextExport]_vars

----------------------------------------------------------------------------
(* The serve command: main goroutine, exporter goroutines, monitor *)

\* errChan := make(chan error, 2)
ErrChanCap == 2

\* The exporters app.New created; the configuration enables at least one.
ServeExporters == {<<TRUE, FALSE>>, <<FALSE, TRUE>>, <<TRUE, TRUE>>}

\* serve after app.New returned: pc is the position of the main goroutine;
\* prom, otel and mon are the positions of the goroutines; cancelled is
\* shutdownCtx.Done(); stopped says that stop() was called; listenErr is the
\* channel inside PrometheusExporter.Start; startErr lists the exporters whose
\* Start returned an error.
ServeState(hasProm, hasOtel) ==
    [phase |-> "serve", pc |-> "notify", hasProm |-> hasProm, hasOtel |-> hasOtel,
     cancelled |-> FALSE, signalled |-> FALSE, stopped |-> FALSE,
     genStarts |-> 0, genStops |-> 0,
     prom |-> "none", otel |-> "none", mon |-> "none",
     listenErr |-> FALSE, startErr |-> {}, errChan |-> << >>, received |-> << >>]

ServeUnchanged == UNCHANGED <<genVars, resVars, ex, fe, itr, export>>

\* shutdownCtx, stop := signal.NotifyContext(...); defer stop()
ServeNotifyContext ==
    /\ sv.phase = "serve" /\ sv.pc = "notify"
    /\ sv' = [sv EXCEPT !.pc = "generatorStart"]
    /\ ServeUnchanged

\* application.Generator.Start(); defer application.Generator.Stop()
ServeGeneratorStart ==
    /\ sv.phase = "serve" /\ sv.pc = "generatorStart"
    /\ sv' = [sv EXCEPT !.genStarts = sv.genStarts + 1, !.pc = "monitorRun"]
    /\ ServeUnchanged

\* mon.Run(shutdownCtx); defer mon.Wait()
ServeMonitorRun ==
    /\ sv.phase = "serve" /\ sv.pc = "monitorRun"
    /\ sv' = [sv EXCEPT !.mon = "running", !.pc = "goPrometheus"]
    /\ ServeUnchanged

\* if application.PrometheusExporter != nil { wg.Go(...) }
ServeGoPrometheus ==
    /\ sv.phase = "serve" /\ sv.pc = "goPrometheus"
    /\ sv' = [sv EXCEPT !.prom = IF sv.hasProm THEN "start" ELSE "none",
                        !.pc = "goOTEL"]
    /\ ServeUnchanged

\* if application.OTELExporter != nil { wg.Go(...) }
ServeGoOTEL ==
    /\ sv.phase = "serve" /\ sv.pc = "goOTEL"
    /\ sv' = [sv EXCEPT !.otel = IF sv.hasOtel THEN "start" ELSE "none",
                        !.pc = "select"]
    /\ ServeUnchanged

\* select, case err := <-errChan: the error is logged and stop() cancels
ServeSelectError ==
    /\ sv.phase = "serve" /\ sv.pc = "select"
    /\ Len(sv.errChan) > 0
    /\ sv' = [sv EXCEPT !.received = Append(sv.received, Head(sv.errChan)),
                        !.errChan = Tail(sv.errChan),
                        !.cancelled = TRUE, !.stopped = TRUE, !.pc = "wait"]
    /\ ServeUnchanged

\* select, case <-shutdownCtx.Done()
ServeSelectDone ==
    /\ sv.phase = "serve" /\ sv.pc = "select"
    /\ sv.cancelled
    /\ sv' = [sv EXCEPT !.pc = "wait"]
    /\ ServeUnchanged

\* wg.Wait() returning at once, whatever the exporter goroutines are doing.
ServeWaitNoWait ==
    /\ sv.phase = "serve" /\ sv.pc = "wait"
    /\ sv' = [sv EXCEPT !.pc = "monitorWait"]
    /\ ServeUnchanged

\* wg.Wait(): blocks until every goroutine started with wg.Go has returned
ServeWait ==
    /\ sv.phase = "serve" /\ sv.pc = "wait"
    /\ sv.prom \in {"none", "returned"}
    /\ sv.otel \in {"none", "returned"}
    /\ sv' = [sv EXCEPT !.pc = "monitorWait"]
    /\ ServeUnchanged

\* return nil, first deferred call: mon.Wait()
ServeMonitorWait ==
    /\ sv.phase = "serve" /\ sv.pc = "monitorWait"
    /\ sv.mon = "exited"
    /\ sv' = [sv EXCEPT !.pc = "generatorStop"]
    /\ ServeUnchanged

\* second deferred call: application.Generator.Stop()
ServeGeneratorStop ==
    /\ sv.phase = "serve" /\ sv.pc = "generatorStop"
    /\ sv' = [sv EXCEPT !.genStops = sv.genStops + 1, !.pc = "stop"]
    /\ ServeUnchanged

\* third deferred call: stop(); serve has returned
ServeStop ==
    /\ sv.phase = "serve" /\ sv.pc = "stop"
    /\ sv' = [sv EXCEPT !.cancelled = TRUE, !.stopped = TRUE, !.pc = "returned"]
    /\ ServeUnchanged

\* os.Interrupt or SIGTERM while NotifyContext is registered
ServeSignal ==
    /\ sv.phase = "serve" /\ sv.pc # "notify"
    /\ ~sv.stopped /\ ~sv.signalled
    /\ sv' = [sv EXCEPT !.signalled = TRUE, !.cancelled = TRUE]
    /\ ServeUnchanged

\* Monitor.Run's goroutine: case <-ctx.Done(): return
MonitorDone ==
    /\ sv.phase = "serve" /\ sv.mon = "running"
    /\ sv.cancelled
    /\ sv' = [sv EXCEPT !.mon = "exited"]
    /\ ServeUnchanged

\* PrometheusExporter.Start: the goroutine with ListenAndServe is started
PrometheusStart ==
    /\ sv.phase = "serve" /\ sv.prom = "start"
    /\ sv' = [sv EXCEPT !.prom = "select"]
    /\ ServeUnchanged

\* ListenAndServe returns an error other than ErrServerClosed
PrometheusListenError ==
    /\ sv.phase = "serve" /\ sv.prom = "select"
    /\ ~sv.listenErr
    /\ sv' = [sv EXCEPT !.listenErr = TRUE]
    /\ ServeUnchanged

\* PrometheusExporter.Start, case err := <-errChan: return err
PrometheusSelectError ==
    /\ sv.phase = "serve" /\ sv.prom = "select"
    /\ sv.listenErr
    /\ sv' = [sv EXCEPT !.prom = "send", !.startErr = sv.startErr \cup {"prometheus"}]
    /\ ServeUnchanged

\* PrometheusExporter.Start, case <-ctx.Done(): return e.Stop(); Shutdown
\* returns nil, or an error when its five seconds are over
PrometheusSelectDone ==
    /\ sv.phase = "serve" /\ sv.prom = "select"
    /\ sv.cancelled
    /\ \E err \in BOOLEAN :
          sv' = [sv EXCEPT !.prom = IF err THEN "send" ELSE "returned",
                           !.startErr = IF err THEN sv.startErr \cup {"prometheus"}
                                        ELSE sv.startErr]
    /\ ServeUnchanged

\* errChan <- fmt.Errorf("prometheus exporter: %w", err): blocks while the
\* buffer is full
PrometheusSend ==
    /\ sv.phase = "serve" /\ sv.prom = "send"
    /\ Len(sv.errChan) < ErrChanCap
    /\ sv' = [sv EXCEPT !.errChan = Append(sv.errChan, "prometheus exporter"),
                        !.prom = "returned"]
    /\ ServeUnchanged

\* OTELExporter.Start: readCtx is derived from ctx
OTELStart ==
    /\ sv.phase = "serve" /\ sv.otel = "start"
    /\ sv' = [sv EXCEPT !.otel = "waiting"]
    /\ ServeUnchanged

\* OTELExporter.Start: <-readCtx.Done(); return nil, so nothing is sent
OTELDone ==
    /\ sv.phase = "serve" /\ sv.otel = "waiting"
    /\ sv.cancelled
    /\ sv' = [sv EXCEPT !.otel = "returned"]
    /\ ServeUnchanged

InitServe ==
    /\ InitIdle
    /\ ex = NoExpansion
    /\ fe = NoForEach
    /\ itr = NoIter
    /\ export = NoExport
    /\ \E e \in ServeExporters : sv = ServeState(e[1], e[2])

ServeMain ==
    \/ ServeNotifyContext \/ ServeGeneratorStart \/ ServeMonitorRun
    \/ ServeGoPrometheus \/ ServeGoOTEL \/ ServeSelectError \/ ServeSelectDone
    \/ ServeWait \/ ServeMonitorWait \/ ServeGeneratorStop \/ ServeStop

ServePrometheus ==
    PrometheusStart \/ PrometheusSelectError \/ PrometheusSelectDone \/ PrometheusSend

ServeOTEL == OTELStart \/ OTELDone

NextServe ==
    \/ ServeMain \/ ServePrometheus \/ ServeOTEL
    \/ ServeSignal \/ MonitorDone \/ PrometheusListenError

SpecServe == InitServe /\ [][NextServe]_vars

\* Every goroutine that can take a step is scheduled; signals and the failure
\* of ListenAndServe are not bound to happen.
SpecServeFair ==
    /\ SpecServe
    /\ WF_vars(ServeMain)
    /\ WF_vars(ServePrometheus)
    /\ WF_vars(ServeOTEL)
    /\ WF_vars(MonitorDone)

InitWith(lists) ==
    /\ metrics \in lists
    /\ phase = "init"
    /\ g = NilGenerator
    /\ clockObjs = << >>
    /\ sourceObjs = << >>
    /\ valueObjs = << >>
    /\ newErr = ""
    /\ startCalls = 0
    /\ stopCalls = 0
    /\ ticks = 0
    /\ reads = 0
    /\ readSum = [i \in 1..Len(metrics) |-> 0]
    /\ got = [called |-> FALSE, index |-> 0, val |-> Nil]
    /\ rs = newResolver
    /\ rphase = "idle"
    /\ rerr = NoError
    /\ call = NoCall
    /\ registered = 0
    /\ rawMetrics = << >>
    /\ outMetrics = << >>
    /\ ex = NoExpansion
    /\ fe = NoForEach
    /\ itr = NoIter
    /\ sv = NoServe
    /\ export = NoExport

\* Resolve(raw): the raw configuration is consumed entity by entity.
InitRes ==
    /\ metrics = << >>
    /\ phase = "idle"
    /\ g = NilGenerator
    /\ clockObjs = << >>
    /\ sourceObjs = << >>
    /\ valueObjs = << >>
    /\ newErr = ""
    /\ startCalls = 0
    /\ stopCalls = 0
    /\ ticks = 0
    /\ reads = 0
    /\ readSum = << >>
    /\ got = [called |-> FALSE, index |-> 0, val |-> Nil]
    /\ rs = newResolver
    /\ rphase = "iterators"
    /\ rerr = NoError
    /\ call = NoCall
    /\ registered = 0
    /\ rawMetrics = << >>
    /\ outMetrics = << >>
    /\ ex = NoExpansion
    /\ fe = NoForEach
    /\ itr = NoIter
    /\ sv = NoServe
    /\ export = NoExport

NextRes ==
    \/ ExpandIterators
    \/ ResolveTemplateClocks
    \/ ResolveInstanceClocks
    \/ ResolveTemplateSources
    \/ ResolveInstanceSources
    \/ ResolveTemplateValues
    \/ ResolveInstanceValues
    \/ ResolveMetrics
    \/ ResolveExport
    \/ ResolveSettings
    \/ Continue
    \/ NextPhase

SpecRes == InitRes /\ [][NextRes]_vars

InitGen == InitWith(GenMetricLists)
NextGen == New \/ Start \/ Stop \/ GetValueCall
SpecGen == InitGen /\ [][NextGen]_vars

InitCoh == InitWith(CoherentLists)
NextCoh == New \/ Start \/ Tick \/ Read \/ Stop
SpecCoh == InitCoh /\ [][NextCoh]_vars

----------------------------------------------------------------------------
(* Properties of the lifecycle manager *)

N == Len(metrics)
ValOf(i) == g.metricValues[i]
SrcOf(i) == valueObjs[ValOf(i)].src
ClkOf(i) == sourceObjs[SrcOf(i)].clk
SourceRefOf(i) == metrics[i].Value.SourceRef
ClockRefOf(i) == metrics[i].Value.Source.ClockRef
Range(f) == {f[x] : x \in DOMAIN f}
NoDuplicates(seq) == \A j, k \in DOMAIN seq : j # k => seq[j] # seq[k]

\* C1: metrics with the same SourceRef get the identical source object, and
\* sources created from a config with the same ClockRef are built on the
\* identical clock object.
C1_SharedIdentity ==
    phase = "built" =>
        /\ \A i, j \in 1..N :
              (SourceRefOf(i) # NilRef /\ SourceRefOf(i) = SourceRefOf(j))
                  => SrcOf(i) = SrcOf(j)
        /\ \A s, t \in DOMAIN sourceObjs :
              (sourceObjs[s].cfg.ClockRef # NilRef
               /\ sourceObjs[s].cfg.ClockRef = sourceObjs[t].cfg.ClockRef)
                  => sourceObjs[s].clk = sourceObjs[t].clk

C1_Witness ==
    /\ phase = "built"
    /\ \E i, j \in 1..N : i # j /\ SourceRefOf(i) # NilRef /\ SourceRefOf(i) = SourceRefOf(j)
    /\ \E s, t \in DOMAIN sourceObjs :
          s # t /\ sourceObjs[s].cfg.ClockRef # NilRef
                /\ sourceObjs[s].cfg.ClockRef = sourceObjs[t].cfg.ClockRef

\* C3: a source or clock without instance name is constructed fresh and never
\* cached: metrics with inline sources get pairwise distinct source objects,
\* with inline clocks also distinct clock objects, none of them in a cache, and
\* every metric with an inline clock constructs one clock of its own.
C3_InlineFresh ==
    phase = "built" =>
        /\ \A i, j \in 1..N :
              (i # j /\ SourceRefOf(i) = NilRef /\ SourceRefOf(j) = NilRef)
                  => /\ SrcOf(i) # SrcOf(j)
                     /\ (ClockRefOf(i) = NilRef /\ ClockRefOf(j) = NilRef)
                            => ClkOf(i) # ClkOf(j)
        /\ \A i \in 1..N :
              SourceRefOf(i) = NilRef
                  => /\ SrcOf(i) \notin Range(g.sourceInstances)
                     /\ ClockRefOf(i) = NilRef => ClkOf(i) \notin Range(g.clockInstances)
        /\ Len(clockObjs) = Cardinality({i \in 1..N : ClockRefOf(i) = NilRef})
                              + Cardinality(DOMAIN g.clockInstances)
        /\ Len(sourceObjs) = Cardinality({i \in 1..N : SourceRefOf(i) = NilRef})
                              + Cardinality(DOMAIN g.sourceInstances)
        /\ DOMAIN g.clockInstances = {ClockRefOf(i)[1] : i \in {k \in 1..N : ClockRefOf(k) # NilRef}}
        /\ DOMAIN g.sourceInstances = {SourceRefOf(i)[1] : i \in {k \in 1..N : SourceRefOf(k) # NilRef}}

C3_Witness ==
    /\ phase = "built"
    /\ \E i, j \in 1..N :
          /\ i # j
          /\ metrics[i] = metrics[j]
          /\ SourceRefOf(i) = NilRef
          /\ ClockRefOf(i) = NilRef
    /\ DOMAIN g.clockInstances # {}

\* C4: every Start() call starts every clock of the ownership list exactly
\* once; the list has no duplicates, so a clock instance that many metrics
\* reference is started once per call.
C4_StartOnce ==
    phase = "built" =>
        /\ NoDuplicates(g.clocks)
        /\ Range(g.clocks) = DOMAIN clockObjs
        /\ \A c \in DOMAIN clockObjs : clockObjs[c].starts = startCalls

C4_Witness ==
    /\ phase = "built"
    /\ startCalls = 1
    /\ \E i, j \in 1..N : i # j /\ ClockRefOf(i) # NilRef /\ ClockRefOf(i) = ClockRefOf(j)
    /\ \E c \in DOMAIN clockObjs : clockObjs[c].starts = 1

\* C5: every Stop() call stops every owned clock and every owned value exactly
\* once, whether or not Start() was called before.
C5_StopOnce ==
    phase = "built" =>
        /\ NoDuplicates(g.values)
        /\ Range(g.values) = DOMAIN valueObjs
        /\ \A c \in DOMAIN clockObjs : clockObjs[c].stops = stopCalls
        /\ \A v \in DOMAIN valueObjs : valueObjs[v].stops = stopCalls

C5_Witness ==
    /\ phase = "built"
    /\ stopCalls = 1
    /\ startCalls = 0
    /\ Len(clockObjs) > 1
    /\ \A v \in DOMAIN valueObjs : valueObjs[v].stops = 1

CounterIdx == CHOOSE i \in 1..N : metrics[i].Type = MetricTypeCounter
GaugeIdx == CHOOSE i \in 1..N : metrics[i].Type = MetricTypeGauge
CounterValue == valueObjs[ValOf(CounterIdx)].cur
GaugePending == valueObjs[ValOf(GaugeIdx)].cur

----------------------------------------------------------------------------
(* Loading: Resolve, then app.New on the resolved configuration *)

MaxLoadMetrics == 2

InlineSource ==
    RawSource("", "", "", Ref("random_int"),
              Ref(RawClock("", "", "", Ref("periodic"), 2)), Ref(4), Ref(7))

\* Value instances with an inline source, with and without accumulation.
LoadValueDefs ==
    {RawValue(n, "", "", Ref(InlineSource), tr, ZeroReset) :
        n \in Names, tr \in {<< >>, <<TransformConfig("accumulate")>>}}

\* Metrics that reference a value instance by name, or carry an inline value.
LoadMetrics ==
    {RawMetric("m", t, "d", RawValue("", inst, "", NilRef, << >>, ZeroReset)) :
        t \in {MetricTypeCounter, MetricTypeGauge}, inst \in Names}
    \cup {RawMetric("m", MetricTypeGauge, "d",
                    RawValue("", "", "", Ref(InlineSource), << >>, ZeroReset))}

LoadInstanceValues == ResolveInstanceValuesOver(LoadValueDefs)
LoadMetricsStep == ResolveMetricsOver(LoadMetrics, MaxLoadMetrics)

NextLoad ==
    \/ ExpandIterators
    \/ LoadInstanceValues
    \/ LoadMetricsStep
    \/ ResolveExport
    \/ ResolveSettings
    \/ Continue
    \/ NextPhase
    \/ AppNew
    \/ GetValueCall

SpecLoad == InitRes /\ [][NextLoad]_vars

\* C7: in a generator built from a resolved configuration, metrics whose value
\* is a reference to the same value instance get the same value object.
C7_SharedValueInstance ==
    phase = "built" =>
        \A i, j \in 1..Len(rawMetrics) :
            (/\ rawMetrics[i].Value.Instance # ""
             /\ rawMetrics[i].Value.Instance = rawMetrics[j].Value.Instance)
                => g.metricValues[i] = g.metricValues[j]

----------------------------------------------------------------------------
(* Properties of the resolver *)

\* The resolver map that holds the entities of a kind.
MapOf(r, entityType) ==
    CASE entityType = "template clock" -> r.templateClocks
      [] entityType = "instance clock" -> r.instanceClocks
      [] entityType = "template source" -> r.templateSources
      [] entityType = "instance source" -> r.instanceSources
      [] entityType = "template value" -> r.templateValues
      [] entityType = "instance value" -> r.instanceValues

EntityTypes == {"template clock", "instance clock", "template source",
                "instance source", "template value", "instance value"}

\* C8: one namespace for all named entities. Every stored template or instance
\* is registered under its own kind, no name is registered twice, an iteration
\* that did not fail has registered its entity, and a collision error carries
\* the name and the kind of the entity that holds it.
C8_OneNamespace ==
    /\ \A k \in EntityTypes : \A n \in DOMAIN MapOf(rs, k) :
          n \in DOMAIN rs.registeredNames /\ rs.registeredNames[n] = k
    /\ \A k1, k2 \in EntityTypes :
          k1 # k2 => DOMAIN MapOf(rs, k1) \cap DOMAIN MapOf(rs, k2) = {}
    /\ Cardinality(DOMAIN rs.registeredNames) = registered
    /\ (call.kind # "none" /\ call.entity[2] # "metric" /\ rphase # "failed")
          => call.entity[1] \in DOMAIN MapOf(rs, call.entity[2])
    /\ rerr.msg = "name already used"
          => /\ rphase = "failed"
             /\ rerr.name = call.entity[1]
             /\ rerr.kind \in EntityTypes
             /\ rerr.name \in DOMAIN MapOf(rs, rerr.kind)

C8_Witness ==
    /\ rphase = "failed"
    /\ rerr.msg = "name already used"
    /\ rerr.kind = "template clock"
    /\ call.entity[2] = "instance value"

\* Fields of a reference other than the instance name.
ClockOverrides(raw) == raw.Template # "" \/ raw.Type # NilRef \/ raw.Interval # 0
SourceOverrides(raw) ==
    raw.Template # "" \/ raw.Type # NilRef \/ raw.Clock # NilRef
        \/ raw.Min # NilRef \/ raw.Max # NilRef
ValueOverrides(raw) ==
    raw.Template # "" \/ raw.Source # NilRef \/ raw.Transforms # << >>
        \/ raw.Reset # ZeroReset

\* The iteration failed with error err and stored nothing.
NothingResolved(err) ==
    /\ rphase = "failed"
    /\ rerr = err
    /\ call.entity[2] # "metric" => call.entity[1] \notin DOMAIN MapOf(rs, call.entity[2])
    /\ call.entity[2] = "metric" => outMetrics = << >>

\* C9, for one resolved reference c of the current iteration.
InstanceReferenceOk(c) ==
    /\ (c.kind = "clock" /\ c.raw.Instance \in DOMAIN rs.instanceClocks)
          => IF ClockOverrides(c.raw)
             THEN /\ c.out.err.msg = "cannot override instance clock"
                  /\ c.out.cfg = ZeroClock
                  /\ NothingResolved(c.out.err)
             ELSE /\ c.out.err = NoError
                  /\ c.out.cfg = rs.instanceClocks[c.raw.Instance]
                  /\ c.out.ref = Ref(c.raw.Instance)
    /\ (c.kind = "source" /\ c.raw.Instance \in DOMAIN rs.instanceSources)
          => IF SourceOverrides(c.raw)
             THEN /\ c.out.err.msg = "cannot override instance source"
                  /\ c.out.cfg = ZeroSource
                  /\ NothingResolved(c.out.err)
             ELSE /\ c.out.err = NoError
                  /\ c.out.cfg = rs.instanceSources[c.raw.Instance]
                  /\ c.out.ref = Ref(c.raw.Instance)
    /\ (c.kind = "value" /\ c.raw.Instance \in DOMAIN rs.instanceValues)
          => IF ValueOverrides(c.raw)
             THEN /\ c.out.err.msg = "cannot override instance value"
                  /\ c.out.cfg = ZeroValue
                  /\ NothingResolved(c.out.err)
             ELSE /\ c.out.err = NoError
                  /\ c.out.cfg = rs.instanceValues[c.raw.Instance]

ClockOverrideApplied(c, cfg, ref) ==
    IF c.Instance # "" THEN cfg = rs.instanceClocks[c.Instance] /\ ref = Ref(c.Instance)
    ELSE IF c.Template # "" THEN ref = NilRef
    ELSE cfg = ClockConfig(c.Type[1], c.Interval) /\ ref = NilRef

SourceOverrideApplied(sr, cfg, ref) ==
    IF sr.Instance # "" THEN cfg = rs.instanceSources[sr.Instance] /\ ref = Ref(sr.Instance)
    ELSE ref = NilRef

\* C10, for one resolved reference c of the current iteration: a successful
\* template reference takes every field without an override from the stored
\* template and every overridden field from the override, a list as a whole.
TemplateReferenceOk(c) ==
    /\ (c.kind = "clock" /\ c.raw.Instance = "" /\ c.raw.Template # ""
            /\ c.out.err = NoError)
          => LET t == rs.templateClocks[c.raw.Template]
                 raw == c.raw
                 o == c.out.cfg IN
             /\ o.Type = IF raw.Type = NilRef THEN t.Type ELSE raw.Type[1]
             /\ o.Interval = IF raw.Interval = 0 THEN t.Interval ELSE raw.Interval
             /\ c.out.ref = NilRef
    /\ (c.kind = "source" /\ c.raw.Instance = "" /\ c.raw.Template # ""
            /\ c.out.err = NoError)
          => LET t == rs.templateSources[c.raw.Template]
                 raw == c.raw
                 o == c.out.cfg IN
             /\ o.Type = IF raw.Type = NilRef THEN t.Type ELSE raw.Type[1]
             /\ o.Min = IF raw.Min = NilRef THEN t.Min ELSE raw.Min[1]
             /\ o.Max = IF raw.Max = NilRef THEN t.Max ELSE raw.Max[1]
             /\ IF raw.Clock = NilRef
                THEN o.Clock = t.Clock /\ o.ClockRef = t.ClockRef
                ELSE ClockOverrideApplied(raw.Clock[1], o.Clock, o.ClockRef)
             /\ c.out.ref = NilRef
    /\ (c.kind = "value" /\ c.raw.Instance = "" /\ c.raw.Template # ""
            /\ c.out.err = NoError)
          => LET t == rs.templateValues[c.raw.Template]
                 raw == c.raw
                 o == c.out.cfg IN
             /\ o.Transforms = IF raw.Transforms = << >> THEN t.Transforms ELSE raw.Transforms
             /\ o.Reset = IF raw.Reset = ZeroReset THEN t.Reset ELSE raw.Reset
             /\ IF raw.Source = NilRef
                THEN o.Source = t.Source /\ o.SourceRef = t.SourceRef
                ELSE SourceOverrideApplied(raw.Source[1], o.Source, o.SourceRef)

C10_Fields == \A k \in DOMAIN call.refs : TemplateReferenceOk(call.refs[k])

\* C10, step part: no step changes or removes a stored template.
TemplatesKept ==
    \A k \in {"template clock", "template source", "template value"} :
        \A n \in DOMAIN MapOf(rs, k) :
            n \in DOMAIN MapOf(rs', k) /\ MapOf(rs', k)[n] = MapOf(rs, k)[n]

\* C10: resolving a template reference changes only the overridden fields and
\* leaves the stored template as it is.
C10_TemplateOverride == []C10_Fields /\ [][TemplatesKept]_vars

C10_Witness ==
    \E k \in DOMAIN call.refs :
        LET c == call.refs[k] IN
        /\ c.kind = "source"
        /\ c.raw.Instance = ""
        /\ c.raw.Template \in DOMAIN rs.templateSources
        /\ c.raw.Max = Ref(7)
        /\ c.raw.Type = NilRef /\ c.raw.Clock = NilRef /\ c.raw.Min = NilRef
        /\ c.out.err = NoError
        /\ c.out.cfg.Max = 7
        /\ rs.templateSources[c.raw.Template].Max = 5
        /\ c.out.cfg.Min = 3
        /\ c.out.cfg.ClockRef = Ref("a")
        /\ c.out.cfg.ClockRef = rs.templateSources[c.raw.Template].ClockRef
        /\ c.out.cfg.Clock = rs.instanceClocks["a"]

----------------------------------------------------------------------------
(* Instance names carried by resolved configurations *)

\* The name a reference yields: the instance name, or none.
InstanceNameOf(raw) == IF raw.Instance # "" THEN Ref(raw.Instance) ELSE NilRef

\* A source configuration names a clock only if its clock is that instance.
ClockRefNamesInstance(s) ==
    s.ClockRef # NilRef
        => /\ s.ClockRef[1] \in DOMAIN rs.instanceClocks
           /\ s.Clock = rs.instanceClocks[s.ClockRef[1]]

\* A value configuration names a source only if its source is that instance.
SourceRefNamesInstance(v) ==
    /\ ClockRefNamesInstance(v.Source)
    /\ v.SourceRef # NilRef
          => /\ v.SourceRef[1] \in DOMAIN rs.instanceSources
             /\ v.Source = rs.instanceSources[v.SourceRef[1]]

\* C11, for one resolved reference c of the current iteration.
RefNameOk(c) ==
    c.out.err = NoError
        => /\ c.kind \in {"clock", "source"} => c.out.ref = InstanceNameOf(c.raw)
           /\ c.kind = "source" => ClockRefNamesInstance(c.out.cfg)
           /\ (c.kind = "source" /\ c.raw.Instance = "" /\ c.raw.Template = "")
                 => c.out.cfg.ClockRef = IF c.raw.Clock = NilRef THEN NilRef
                                         ELSE InstanceNameOf(c.raw.Clock[1])
           /\ c.kind = "value" => SourceRefNamesInstance(c.out.cfg)
           /\ (c.kind = "value" /\ c.raw.Instance = "" /\ c.raw.Template = "")
                 => c.out.cfg.SourceRef = InstanceNameOf(c.raw.Source[1])

\* C11: a resolved source carries a clock instance name only if its clock is
\* that clock instance, obtained through an instance reference, and a resolved
\* value carries a source instance name only if its source is that source
\* instance; a template reference or an inline definition yields no name.
C11_RefOnlyFromInstance ==
    /\ \A k \in DOMAIN call.refs : RefNameOk(call.refs[k])
    /\ \A n \in DOMAIN rs.templateSources : ClockRefNamesInstance(rs.templateSources[n])
    /\ \A n \in DOMAIN rs.instanceSources : ClockRefNamesInstance(rs.instanceSources[n])
    /\ \A n \in DOMAIN rs.templateValues : SourceRefNamesInstance(rs.templateValues[n])
    /\ \A n \in DOMAIN rs.instanceValues : SourceRefNamesInstance(rs.instanceValues[n])
    /\ \A i \in DOMAIN outMetrics : SourceRefNamesInstance(outMetrics[i].Value)

C11_Witness ==
    /\ rphase # "failed"
    /\ \E i \in DOMAIN outMetrics :
          /\ outMetrics[i].Value.SourceRef = NilRef
          /\ outMetrics[i].Value.Source.ClockRef = Ref("a")
    /\ \E k \in DOMAIN call.refs :
          /\ call.refs[k].kind = "source"
          /\ call.refs[k].raw.Template # ""
          /\ call.refs[k].out.err = NoError

----------------------------------------------------------------------------
(* Validation of resolved configurations *)

\* C12: every metric of a returned Config has a value whose source has a clock
\* with a non-empty type, because a source or a value whose clock is absent or
\* empty is rejected wherever it is resolved.
C12_ClockRequired ==
    rphase = "done"
        => \A i \in DOMAIN outMetrics : outMetrics[i].Value.Source.Clock.Type # ""

\* The same requirement on the sources and values that resolution stored.
C12_StoredClockRequired ==
    /\ \A n \in DOMAIN rs.templateSources : rs.templateSources[n].Clock.Type # ""
    /\ \A n \in DOMAIN rs.instanceSources : rs.instanceSources[n].Clock.Type # ""
    /\ \A n \in DOMAIN rs.templateValues : rs.templateValues[n].Source.Clock.Type # ""
    /\ \A n \in DOMAIN rs.instanceValues : rs.instanceValues[n].Source.Clock.Type # ""

\* A returned Config whose metric has an inline value on a source without clock.
C12_Witness ==
    /\ rphase = "done"
    /\ \E i \in DOMAIN outMetrics :
          /\ outMetrics[i].Value.Source.Type # ""
          /\ outMetrics[i].Value.Source.Clock = ZeroClock
          /\ rawMetrics[i].Value.Source # NilRef
          /\ rawMetrics[i].Value.Source[1].Clock = NilRef

\* A clock configuration with a type and a strictly positive interval.
ClockValid(c) == c.Type # "" /\ c.Interval > 0

\* C13: every clock configuration that resolution produces (clock template,
\* clock instance, inline clock, clock template reference with overrides) has
\* a non-empty type and a strictly positive interval.
C13_ClockValid ==
    /\ \A n \in DOMAIN rs.templateClocks : ClockValid(rs.templateClocks[n])
    /\ \A n \in DOMAIN rs.instanceClocks : ClockValid(rs.instanceClocks[n])
    /\ \A k \in DOMAIN call.refs :
          (call.refs[k].kind = "clock" /\ call.refs[k].out.err = NoError)
              => ClockValid(call.refs[k].out.cfg)

\* A clock instance with a negative interval was stored.
C13_Witness ==
    /\ rphase # "failed"
    /\ \E n \in DOMAIN rs.instanceClocks :
          /\ rs.instanceClocks[n].Type # ""
          /\ rs.instanceClocks[n].Interval < 0

MetricTypes == {MetricTypeCounter, MetricTypeGauge}

\* The metric the current iteration resolved, and its resolved value.
CurrentRawMetric == rawMetrics[Len(rawMetrics)]
CurrentValue == call.refs[1].out

MetricFailed(msg) ==
    /\ rphase = "failed"
    /\ rerr.msg = msg
    /\ outMetrics = << >>

\* C14: no metric of the resolved Config has a type other than counter and
\* gauge, an empty description or a value whose source type is empty. A metric
\* whose value resolved fails on its type if the type is not one of the two,
\* else with "description required" if the description is empty, else with
\* "value source required" if the resolved source type is empty.
C14_MetricValid ==
    /\ \A i \in DOMAIN outMetrics :
          /\ outMetrics[i].Type \in MetricTypes
          /\ outMetrics[i].Description # ""
          /\ outMetrics[i].Value.Source.Type # ""
    /\ (call.kind = "iter" /\ call.entity[2] = "metric" /\ CurrentValue.err = NoError)
          => IF CurrentRawMetric.Type \notin MetricTypes
             THEN MetricFailed(IF CurrentRawMetric.Type = "" THEN "type required"
                               ELSE "invalid type")
             ELSE IF CurrentRawMetric.Description = ""
             THEN MetricFailed("description required")
             ELSE IF CurrentValue.cfg.Source.Type = ""
             THEN MetricFailed("value source required")
             ELSE rphase # "failed" /\ outMetrics # << >>

C14_Witness ==
    /\ call.kind = "iter"
    /\ call.entity[2] = "metric"
    /\ CurrentValue.err = NoError
    /\ CurrentValue.cfg.Source.Type = ""
    /\ MetricFailed("value source required")

----------------------------------------------------------------------------
(* Outcome of Resolve *)

\* Resolve has an error exactly when it failed, and a generator exists only
\* for a Config that Resolve completed, built from all of its metrics.
C15_Outcome ==
    /\ rphase = "failed" <=> rerr # NoError
    /\ rphase = "failed" => phase = "idle"
    /\ phase # "idle"
          => /\ rphase = "done"
             /\ metrics = buildConfig(rs, outMetrics).Metrics
             /\ Len(outMetrics) = Len(rawMetrics)

\* After a failure nothing runs any more.
C15_Halted == rphase = "failed" => UNCHANGED vars

\* The phases run in their order, each one after the one before it succeeded.
C15_InOrder ==
    rphase' # rphase
        => \/ rphase' = "failed"
           \/ PhaseIndex(rphase') = PhaseIndex(rphase) + 1

\* C15: resolution is fail-fast and all-or-nothing. Resolve ends with a Config
\* and no error or with an error and no Config, once a phase has failed no
\* later phase runs, and the generator is only ever built from a completely
\* resolved Config.
C15_FailFast == []C15_Outcome /\ [][C15_Halted /\ C15_InOrder]_vars

\* The second metric failed after the first one had been resolved.
C15_Witness ==
    /\ rphase = "failed"
    /\ Len(rawMetrics) = 2
    /\ outMetrics = << >>
    /\ phase = "idle"

----------------------------------------------------------------------------
(* Dangling references *)

\* The instances and the templates a reference of a kind can name.
InstancesOf(kind) ==
    CASE kind = "clock" -> rs.instanceClocks
      [] kind = "source" -> rs.instanceSources
      [] kind = "value" -> rs.instanceValues

TemplatesOf(kind) ==
    CASE kind = "clock" -> rs.templateClocks
      [] kind = "source" -> rs.templateSources
      [] kind = "value" -> rs.templateValues

\* The reference c failed with "<kind> <what> not found" for the name.
NotFound(c, what, name) ==
    /\ c.out.err.msg = c.kind \o " " \o what \o " not found"
    /\ c.out.err.name = name
    /\ NothingResolved(c.out.err)

\* C16, for one resolved reference c of the current iteration.
DanglingReferenceFails(c) ==
    /\ (c.raw.Instance # "" /\ c.raw.Instance \notin DOMAIN InstancesOf(c.kind))
          => NotFound(c, "instance", c.raw.Instance)
    /\ (c.raw.Instance = "" /\ c.raw.Template # ""
            /\ c.raw.Template \notin DOMAIN TemplatesOf(c.kind))
          => NotFound(c, "template", c.raw.Template)

\* C16: a clock, source or value reference to an instance name that is not a
\* resolved instance of that kind, or to a template name that is not a
\* resolved template of that kind, fails with "not found" and resolves
\* nothing, also when the name belongs to an entity of another kind.
C16_DanglingReference ==
    \A k \in DOMAIN call.refs : DanglingReferenceFails(call.refs[k])

\* A clock reference to the name of a clock template, used as an instance.
C16_Witness ==
    \E k \in DOMAIN call.refs :
        /\ call.refs[k].kind = "clock"
        /\ call.refs[k].raw.Instance \in DOMAIN rs.templateClocks
        /\ call.refs[k].out.err.msg = "clock instance not found"
        /\ rphase = "failed"

----------------------------------------------------------------------------
(* Context of a resolution error *)

\* The references of the current iteration in which the error rerr arose:
\* the failing call and the calls that enclose it.
FailedRefs == {k \in DOMAIN call.refs : call.refs[k].out.err = rerr}

\* The template references that resolution descended into before it reached
\* the failing reference.
TemplatesDescended ==
    {k \in FailedRefs : k + 1 \in FailedRefs /\ call.refs[k].raw.Template # ""}

\* C17: an error that arises inside nested references carries the frame of
\* the entity being resolved and one frame for every template reference that
\* resolution descended into on the way to the failure.
C17_FramePerLevel ==
    (rphase = "failed" /\ call.kind = "iter" /\ FailedRefs # {})
        => Len(rerr.frames) >= 1 + Cardinality(TemplatesDescended)

\* A metric whose value template reference overrides the source with a source
\* template reference whose clock override fails: three levels, one frame.
C17_Witness ==
    /\ rphase = "failed"
    /\ call.entity[2] = "metric"
    /\ FailedRefs = {1, 2, 3}
    /\ Cardinality(TemplatesDescended) = 2
    /\ rerr.frames = <<<<"metric", call.entity[1]>>>>

----------------------------------------------------------------------------
(* Properties of iterator expansion *)

\* The names that the raw configuration defines as iterators.
DefinedNames == {ex.Iterators[k].Name : k \in DOMAIN ex.Iterators}

\* The name fields of a metric, and the strings that still hold a placeholder.
NameFields(m) == {m.Name.Simple, m.Name.Prometheus, m.Name.OTEL}
HasPlaceholder(s) == extractPlaceholderNames(s) # << >>

\* C18: when expansion succeeds, every placeholder in a name field of an
\* entity names a defined iterator, and no placeholder is left in a name
\* field of an expanded entity.
C18_PlaceholdersDefined ==
    ex.phase = "done"
        => /\ \A n \in DOMAIN ex.items : NameFound(ex.items[n].Name) \subseteq DefinedNames
           /\ \A k \in DOMAIN ex.expanded :
                 \A s \in NameFields(ex.expanded[k]) : ~HasPlaceholder(s)

\* The same for the description of a metric.
C18_DescriptionScanned ==
    ex.phase = "done"
        => \A k \in DOMAIN ex.expanded : ~HasPlaceholder(ex.expanded[k].Description)

\* A configuration without iterators was expanded and a metric name still
\* holds its placeholder.
C18_Witness ==
    /\ ex.phase = "done"
    /\ ex.Iterators = << >>
    /\ \E k \in DOMAIN ex.expanded : HasPlaceholder(ex.expanded[k].Name.Simple)

\* A raw iterator that buildIteratorRegistry accepts.
WellFormed(raw) ==
    \/ raw.Type = "range" /\ raw.Start # NilRef /\ raw.End # NilRef
    \/ raw.Type = "list" /\ Len(raw.Values) > 0

WellFormedIterators ==
    /\ \A k \in DOMAIN ex.Iterators : WellFormed(ex.Iterators[k])
    /\ \A k, l \in DOMAIN ex.Iterators :
          ex.Iterators[k].Name = ex.Iterators[l].Name => k = l

\* The values a well-formed raw iterator stands for.
RawValues(raw) ==
    IF raw.Type = "range" THEN {Itoa(v) : v \in raw.Start[1]..raw.End[1]}
    ELSE SeqRange(raw.Values)

RawIteratorOf(name) ==
    ex.Iterators[CHOOSE k \in DOMAIN ex.Iterators : ex.Iterators[k].Name = name]

\* The names of the iterators of length zero.
ZeroLengthNames ==
    {ex.Iterators[k].Name : k \in {l \in DOMAIN ex.Iterators :
                                      /\ WellFormed(ex.Iterators[l])
                                      /\ RawValues(ex.Iterators[l]) = {}}}

ReferencesEmpty(item) == NameFound(item.Name) \cap ZeroLengthNames # {}
AllDefined(item) == NameFound(item.Name) \subseteq DefinedNames

\* C19: an entity that references an iterator of length zero is never
\* expanded: the iteration that reaches it fails with the zero-results error
\* and returns nothing. An iterator of length zero is built and registered
\* like any other, and expansion does not fail on account of it as long as no
\* entity references it.
C19_ZeroLength ==
    /\ ex.registry # NilRef
          => \A n \in DOMAIN ex.items : n < ex.idx => ~ReferencesEmpty(ex.items[n])
    /\ (/\ ex.phase = "failed"
        /\ ex.err.index >= 0
        /\ AllDefined(ex.items[ex.idx])
        /\ ReferencesEmpty(ex.items[ex.idx]))
          => /\ ex.err.msg = "iterator combination produces zero results"
             /\ ex.err.index = ex.idx - 1
             /\ ex.expanded = << >>
    /\ ex.err.msg = "iterator combination produces zero results"
          => ex.phase = "failed" /\ ReferencesEmpty(ex.items[ex.idx])
    /\ (ex.phase # "init" /\ ex.Iterators # << >> /\ WellFormedIterators)
          => /\ ex.registry # NilRef
             /\ DOMAIN ex.registry[1] = DefinedNames
             /\ \A n \in DefinedNames :
                   ex.registry[1][n].count = Cardinality(RawValues(RawIteratorOf(n)))
    /\ (/\ WellFormedIterators
        /\ \A n \in DOMAIN ex.items :
              AllDefined(ex.items[n]) /\ ~ReferencesEmpty(ex.items[n]))
          => ex.phase # "failed"

\* The second entity references an empty range and fails the expansion.
C19_Witness ==
    /\ ex.phase = "failed"
    /\ ex.idx = 2
    /\ ex.err.msg = "iterator combination produces zero results"
    /\ Len(ex.Iterators) = 2

\* The number of entities an entity contributes: the product of the lengths
\* of the iterators it references.
RECURSIVE LengthProduct(_)
LengthProduct(S) ==
    IF S = {} THEN 1
    ELSE LET n == CHOOSE n \in S : TRUE IN
         Cardinality(RawValues(RawIteratorOf(n))) * LengthProduct(S \ {n})

BlockLen(item) ==
    IF ex.registry = NilRef THEN 1 ELSE LengthProduct(NameFound(item.Name))

\* The number of expanded entities before the block of the n-th entity.
RECURSIVE Offset(_)
Offset(n) == IF n <= 1 THEN 0 ELSE Offset(n - 1) + BlockLen(ex.items[n - 1])

Block(n) == SubSeq(ex.expanded, Offset(n) + 1, Offset(n + 1))

\* The assignments of values to the iterators an entity references.
Assignments(item) ==
    {a \in [NameFound(item.Name) ->
               UNION {RawValues(RawIteratorOf(n)) : n \in NameFound(item.Name)}] :
        \A n \in NameFound(item.Name) : a[n] \in RawValues(RawIteratorOf(n))}

\* The entity with the values of an assignment in place of its placeholders.
Substituted(item, a) ==
    {SubstitutePlaceholders(item, a, order) : order \in MapOrders(NameFound(item.Name))}

\* C20: the expanded list is the concatenation, in declaration order, of one
\* block per entity: the entity itself if it has no placeholder, else as many
\* clones as the product of the lengths of its iterators, exactly one for each
\* assignment of values to them.
C20_Expansion ==
    ex.phase = "done"
        => /\ Len(ex.expanded) = Offset(Len(ex.items) + 1)
           /\ \A n \in DOMAIN ex.items :
                 IF NameFound(ex.items[n].Name) = {} THEN Block(n) = <<ex.items[n]>>
                 ELSE ex.registry # NilRef
                         => /\ Len(Block(n)) = LengthProduct(NameFound(ex.items[n].Name))
                            /\ \A a \in Assignments(ex.items[n]) :
                                  Cardinality({k \in DOMAIN Block(n) :
                                      Block(n)[k] \in Substituted(ex.items[n], a)}) = 1

\* An entity without placeholder followed by one over a range of 2 values
\* and a list of 3 values: 1 + 6 expanded entities.
C20_Witness ==
    /\ ex.phase = "done"
    /\ Len(ex.items) = 2
    /\ NameFound(ex.items[1].Name) = {}
    /\ NameFound(ex.items[2].Name) = {IterI, IterJ}
    /\ ex.registry # NilRef
    /\ ex.registry[1][IterI].count = 2
    /\ ex.registry[1][IterJ].count = 3
    /\ Len(ex.expanded) = 7

----------------------------------------------------------------------------
(* Properties of iterators and of the combination generator *)

Lengths == [i \in DOMAIN fe.iterators |-> fe.iterators[i].count]

\* The product of the first n numbers of a sequence; 1 for none.
RECURSIVE Product(_, _)
Product(seq, n) == IF n = 0 THEN 1 ELSE seq[n] * Product(seq, n - 1)

\* The greatest of the lengths of at least one iterator.
LongestLength ==
    CHOOSE m \in SeqRange(Lengths) : \A i \in DOMAIN Lengths : Lengths[i] <= m

SomeEmpty == \E i \in DOMAIN fe.iterators : fe.iterators[i].count = 0

\* C21 as stated: for every list of iterators, the empty list included,
\* Total() is the product of their lengths, and zero if one of them is empty.
C21_TotalIsProduct ==
    fe.phase # "init"
        => /\ fe.gen.total = Product(Lengths, Len(Lengths))
           /\ SomeEmpty => fe.gen.total = 0

\* C21: for every list of at least one iterator Total() is the product of
\* their lengths, zero if one of them is empty; for no iterators it is zero.
C21_Total ==
    fe.phase # "init"
        => IF fe.iterators = << >> THEN fe.gen.total = 0
           ELSE /\ fe.gen.total = Product(Lengths, Len(Lengths))
                /\ SomeEmpty => fe.gen.total = 0

\* Three iterators of 2, 3 and 2 values: 12 combinations.
C21_Witness ==
    /\ fe.phase # "init"
    /\ Lengths = <<2, 3, 2>>
    /\ fe.gen.total = 12

DistinctNames ==
    \A i, j \in DOMAIN fe.iterators :
        fe.iterators[i].name = fe.iterators[j].name => i = j

\* The value positions chosen for the combination of an index.
PositionsAt(index) == [i \in DOMAIN fe.iterators |-> valueIndex(fe.gen, i, index)]

\* C22: fn is called with the indices 0, 1, 2, ... in this order; if it never
\* fails it is called Total() times and nil is returned; if it fails, that
\* call is the last one and its error is returned. For iterators with
\* distinct names two calls never get the same value positions, and the calls
\* of a complete iteration cover every choice of positions.
C22_ForEach ==
    fe.phase # "init"
        => /\ \A k \in DOMAIN fe.calls : fe.calls[k].index = k - 1
           /\ Len(fe.calls) = IF fe.phase = "done" /\ fe.err # -1 THEN fe.i + 1 ELSE fe.i
           /\ (fe.phase = "done" /\ fe.failAt \notin 0..(fe.gen.total - 1))
                 => fe.err = -1 /\ Len(fe.calls) = fe.gen.total
           /\ (fe.phase = "done" /\ fe.failAt \in 0..(fe.gen.total - 1))
                 => fe.err = fe.failAt /\ Len(fe.calls) = fe.failAt + 1
           /\ DistinctNames
                 => /\ \A k, l \in DOMAIN fe.calls :
                          k # l => PositionsAt(k - 1) # PositionsAt(l - 1)
                    /\ \A k \in DOMAIN fe.calls : \A i \in DOMAIN fe.iterators :
                          /\ PositionsAt(k - 1)[i] \in 0..(Lengths[i] - 1)
                          /\ fe.calls[k].combo[fe.iterators[i].name]
                                = fe.iterators[i].values[PositionsAt(k - 1)[i] + 1]
                    /\ (fe.phase = "done" /\ fe.err = -1 /\ fe.iterators # << >>)
                          => \A p \in [DOMAIN fe.iterators -> 0..(LongestLength - 1)] :
                                (\A i \in DOMAIN fe.iterators : p[i] < Lengths[i])
                                    => \E k \in DOMAIN fe.calls : PositionsAt(k - 1) = p

\* A complete iteration over 2 x 3 x 2 values, and none of the calls failed.
C22_Witness ==
    /\ fe.phase = "done"
    /\ fe.err = -1
    /\ DistinctNames
    /\ Len(fe.calls) = 12

\* The radix of the i-th iterator: the product of the lengths before it.
RECURSIVE Radix(_)
Radix(i) == IF i <= 1 THEN 1 ELSE Radix(i - 1) * Lengths[i - 1]

\* The positions after one step of an odometer whose first wheel is the
\* fastest: a wheel steps when all wheels before it are at their last value.
OdometerStep(p) ==
    [i \in DOMAIN p |->
        IF \A j \in 1..(i - 1) : p[j] = Lengths[j] - 1
        THEN (p[i] + 1) % Lengths[i]
        ELSE p[i]]

DigitOf(c) == IF \E d \in DOMAIN Digits : Digits[d] = c
              THEN (CHOOSE d \in DOMAIN Digits : Digits[d] = c) - 1
              ELSE -1

RECURSIVE Unsigned(_)
Unsigned(s) ==
    IF Len(s) = 0 THEN 0
    ELSE Unsigned(SubSeq(s, 1, Len(s) - 1)) * 10 + DigitOf(s[Len(s)])

\* s is the decimal string of n: digits only, a minus sign for a negative
\* number, no leading zero.
IsDecimalOf(s, n) ==
    LET d == IF n < 0 THEN Tail(s) ELSE s IN
    /\ Len(s) > 0
    /\ n < 0 => s[1] = "-"
    /\ Len(d) > 0
    /\ \A k \in DOMAIN d : DigitOf(d[k]) >= 0
    /\ Len(d) > 1 => d[1] # "0"
    /\ Unsigned(d) = (IF n < 0 THEN -n ELSE n)

\* C23: a range iterator with end >= start has end-start+1 values, one with
\* end < start has none; ValueAt(i) is the decimal string of start+i for i in
\* [0, Len()), and it panics for any other index.
C23_Range ==
    (itr.phase = "built" /\ itr.type = "range")
        => /\ itr.end >= itr.start => itr.it.count = itr.end - itr.start + 1
           /\ itr.end < itr.start => itr.it.count = 0
           /\ itr.called
                 => IF itr.at.index >= 0 /\ itr.at.index < itr.it.count
                    THEN /\ ~itr.at.panic
                         /\ IsDecimalOf(itr.at.value, itr.start + itr.at.index)
                    ELSE itr.at.panic

\* The range 98..100 and its last value, "100".
C23_Witness ==
    /\ itr.phase = "built"
    /\ itr.type = "range"
    /\ itr.start = 98 /\ itr.end = 100
    /\ itr.called
    /\ itr.at.index = 2
    /\ itr.at.value = <<"1", "0", "0">>

----------------------------------------------------------------------------
(* Properties of the export configuration *)

PromOn(e) == e.Prometheus # NilRef /\ e.Prometheus[1].Enabled
OtelOn(e) == e.OTEL # NilRef /\ e.OTEL[1].Enabled

\* The raw export section resolveExport was called with.
RawExportOf == call.refs[1].raw

\* C24: a resolved export configuration has exactly one exporter enabled; a
\* raw section that enables both is rejected, so is one whose configured
\* exporters are all disabled; without any exporter section the result is
\* Prometheus, enabled, on port 9090 and path /metrics, and no OTEL.
C24_OneExporter ==
    call.kind = "export"
        => /\ rerr = NoError => (PromOn(export) /\ ~OtelOn(export))
                                   \/ (~PromOn(export) /\ OtelOn(export))
           /\ rerr # NoError => export = NoExport
           /\ (PromOn(RawExportOf) /\ OtelOn(RawExportOf)) => rerr # NoError
           /\ (/\ RawExportOf.Prometheus # NilRef \/ RawExportOf.OTEL # NilRef
               /\ ~PromOn(RawExportOf)
               /\ ~OtelOn(RawExportOf)) => rerr # NoError
           /\ (RawExportOf.Prometheus = NilRef /\ RawExportOf.OTEL = NilRef)
                 => /\ rerr = NoError
                    /\ export.OTEL = NilRef
                    /\ export.Prometheus
                          = Ref([Enabled |-> TRUE, Port |-> 9090, Path |-> "/metrics"])

\* No exporter section: Prometheus with its defaults.
C24_Witness ==
    /\ call.kind = "export"
    /\ RawExportOf = [Prometheus |-> NilRef, OTEL |-> NilRef]
    /\ rerr = NoError
    /\ PromOn(export)
    /\ export.Prometheus[1].Port = 9090

----------------------------------------------------------------------------
(* Order of the phases of Resolve *)

\* The order of the phases, "done" after the last one.
PhaseOrder ==
    <<"iterators", "templateClocks", "instanceClocks", "templateSources",
      "instanceSources", "templateValues", "instanceValues", "metrics", "export",
      "settings", "done">>

\* Resolve leaves a phase for the next one of the order, or fails.
C25_Order ==
    rphase' # rphase
        => \/ rphase' = "failed"
           \/ \E k \in 1..(Len(PhaseOrder) - 1) :
                 rphase = PhaseOrder[k] /\ rphase' = PhaseOrder[k + 1]

\* The results of a phase change in that phase only.
C25_Frozen ==
    /\ rs'.templateClocks # rs.templateClocks => rphase = "templateClocks"
    /\ rs'.instanceClocks # rs.instanceClocks => rphase = "instanceClocks"
    /\ rs'.templateSources # rs.templateSources => rphase = "templateSources"
    /\ rs'.instanceSources # rs.instanceSources => rphase = "instanceSources"
    /\ rs'.templateValues # rs.templateValues => rphase = "templateValues"
    /\ rs'.instanceValues # rs.instanceValues => rphase = "instanceValues"
    /\ outMetrics' # outMetrics => rphase = "metrics"
    /\ export' # export => rphase = "export"

\* A reference to a resolved instance or template of its kind is found,
\* whatever the phase of the entity that makes it; a reference to an instance
\* without overrides resolves to that instance.
C25_Visible ==
    \A k \in DOMAIN call.refs :
        LET c == call.refs[k] IN
        /\ (c.raw.Instance # "" /\ c.raw.Instance \in DOMAIN InstancesOf(c.kind))
              => c.out.err.msg # c.kind \o " instance not found"
        /\ (c.raw.Instance = "" /\ c.raw.Template # ""
                /\ c.raw.Template \in DOMAIN TemplatesOf(c.kind))
              => c.out.err.msg # c.kind \o " template not found"

----------------------------------------------------------------------------
(* Instance names carried by resolved entities *)

\* The clock reference of a resolved source names the clock embedded in it.
ClockRefDenotes(s) ==
    s.ClockRef # NilRef
        => /\ s.ClockRef[1] \in DOMAIN rs.instanceClocks
           /\ s.Clock = rs.instanceClocks[s.ClockRef[1]]

\* The source reference of a resolved value names the source embedded in it.
SourceRefDenotes(v) ==
    /\ ClockRefDenotes(v.Source)
    /\ v.SourceRef # NilRef
          => /\ v.SourceRef[1] \in DOMAIN rs.instanceSources
             /\ v.Source = rs.instanceSources[v.SourceRef[1]]

\* C27: in everything Resolve has resolved, and so in the Config it returns,
\* a value with SourceRef = n embeds the source instance n and a source with
\* ClockRef = n embeds the clock instance n.
C27_RefDenotesEmbedded ==
    /\ \A n \in DOMAIN rs.templateSources : ClockRefDenotes(rs.templateSources[n])
    /\ \A n \in DOMAIN rs.instanceSources : ClockRefDenotes(rs.instanceSources[n])
    /\ \A n \in DOMAIN rs.templateValues : SourceRefDenotes(rs.templateValues[n])
    /\ \A n \in DOMAIN rs.instanceValues : SourceRefDenotes(rs.instanceValues[n])
    /\ \A k \in DOMAIN outMetrics : SourceRefDenotes(outMetrics[k].Value)
    /\ rphase = "done"
          => LET cfg == buildConfig(rs, outMetrics) IN
             \A k \in DOMAIN cfg.Metrics :
                LET v == cfg.Metrics[k].Value IN
                /\ v.SourceRef # NilRef => v.Source = cfg.Instances.Sources[v.SourceRef[1]]
                /\ v.Source.ClockRef # NilRef
                      => v.Source.Clock = cfg.Instances.Clocks[v.Source.ClockRef[1]]

\* A Config whose metric names a source instance that names a clock instance.
C27_Witness ==
    /\ rphase = "done"
    /\ \E k \in DOMAIN outMetrics :
          /\ outMetrics[k].Value.SourceRef # NilRef
          /\ outMetrics[k].Value.Source.ClockRef # NilRef

----------------------------------------------------------------------------
(* Clocks without a source *)

\* The clocks that drive a source the generator owns.
DrivingClocks == {sourceObjs[g.sources[k]].clk : k \in DOMAIN g.sources}

\* C28: after New every clock of the ownership list, and so every clock that
\* Start starts, is the clock of a source the generator created.
C28_NoOrphanClock ==
    phase = "built" => \A k \in DOMAIN g.clocks : g.clocks[k] \in DrivingClocks

\* Two metrics share a named source whose clock is not a named instance: the
\* second metric's clock is owned, started and stopped, and drives no source.
C28_Witness ==
    /\ phase = "built"
    /\ Len(metrics) = 2
    /\ metrics[1].Value.SourceRef # NilRef
    /\ metrics[1].Value.SourceRef = metrics[2].Value.SourceRef
    /\ metrics[1].Value.Source.ClockRef = NilRef
    /\ Len(g.sources) = 1
    /\ Len(g.clocks) = 2
    /\ g.clocks[2] \notin DrivingClocks
    /\ startCalls > 0
    /\ clockObjs[g.clocks[2]].starts > 0

----------------------------------------------------------------------------
(* Two expansions of one raw configuration *)

\* C29: two expansions of the same raw configuration return the same entities
\* in the same order, and fail alike.
C29_Deterministic ==
    (ex.run = 2 /\ ex.phase \in {"done", "failed"})
        => /\ ex.expanded = ex.first[1].expanded
           /\ ex.err = ex.first[1].err

\* A metric named {i}_{j} over a range of two and a list of three values is
\* expanded twice into the same six names in two different orders.
C29_Witness ==
    /\ ex.run = 2
    /\ ex.phase = "done"
    /\ Len(ex.items) = 1
    /\ Cardinality(NameFound(ex.items[1].Name)) = 2
    /\ Len(ex.expanded) = 6
    /\ SeqRange(ex.expanded) = SeqRange(ex.first[1].expanded)
    /\ ex.expanded # ex.first[1].expanded

----------------------------------------------------------------------------
(* Shutdown of the serve command *)

ExportersReturned ==
    sv.prom \in {"none", "returned"} /\ sv.otel \in {"none", "returned"}

\* A shutdown signal has arrived or the Start of an exporter has returned an
\* error.
ShutdownTriggered == sv.signalled \/ sv.startErr # {}

C30_Order ==
    /\ sv.genStarts <= 1 /\ sv.genStops <= 1
    /\ (sv.prom # "none" \/ sv.otel # "none") => sv.genStarts = 1
    /\ sv.genStops = 1
          => ShutdownTriggered /\ sv.cancelled /\ ExportersReturned /\ sv.mon = "exited"
    /\ sv.pc = "returned" => sv.genStops = 1
    /\ sv.prom = "send" => Len(sv.errChan) < ErrChanCap

\* C30: in serve, Generator.Start() runs before any exporter is started and an
\* exporter goroutine that reports an error never blocks on errChan; once a
\* signal arrives or the Start of an exporter returns an error, the context is
\* cancelled, every exporter goroutine returns, then Generator.Stop() runs,
\* exactly once, and serve returns.
C30_Shutdown ==
    /\ []C30_Order
    /\ ShutdownTriggered ~> sv.cancelled
    /\ ShutdownTriggered ~> (sv.pc = "returned" /\ sv.genStops = 1 /\ ExportersReturned)

\* Both exporters run, ListenAndServe fails, no signal arrives: main receives
\* the error, cancels, waits for both goroutines, stops the generator, returns.
C30_Witness ==
    /\ sv.phase = "serve"
    /\ sv.hasProm /\ sv.hasOtel
    /\ ~sv.signalled
    /\ sv.startErr = {"prometheus"}
    /\ sv.received = <<"prometheus exporter">>
    /\ sv.otel = "returned" /\ sv.prom = "returned"
    /\ sv.genStarts = 1 /\ sv.genStops = 1
    /\ sv.pc = "returned"

====
